---- MODULE Spec2Model ----
(***************************************************************************)
(* Job scheduler of the TCG Shopify plugin: SchedulerService               *)
(* (src/src/services/scheduler.service.ts), the schedule store methods     *)
(* (src/src/services/database/methods/schedule.ts) and the /schedules      *)
(* routes (src/src/routes/v1/scheduler/scheduler.ts).                      *)
(*                                                                         *)
(* The program runs on one event loop.  Every `await` of a store method    *)
(* splits a function body in two: the store executes the query (one step)  *)
(* and the continuation runs later (another step); the code between two    *)
(* awaits is atomic.  A continuation that only computes local values and   *)
(* issues the next query is folded into the step of the preceding query.   *)
(***************************************************************************)
EXTENDS Integers, Sequences, FiniteSets, Bags, TLC

(* ------------------------------------------------------------------ *)
(* Bounds of the model                                                *)
(* ------------------------------------------------------------------ *)
(* calls and executions in flight together *)
MaxInFlight == 2

VARIABLES
  store,                \* the schedules table: name -> rows of that name
  jobs,                 \* SchedulerService.jobs: name -> {job, handler}
  scheduler,            \* ToadScheduler: the bag of registered jobs
  calls,                \* the bag of administrative calls in flight
  execs,                \* the bag of trigger-fired executions in flight
  now,                  \* the instant `new Date()` gives, in seconds
  zone,                 \* the time zone of the process
  isInitializing,
  expectedHandlerCount,
  hasLoggedReady,
  initStarted,          \* the onReady hook has run
  graceTimer,           \* the 5000 ms timer of initializeJobsFromDatabase is pending
  logLines,             \* the lines of the scheduler's log about missing handlers
  apiKeys,              \* the api_keys table: id -> absent, active or revoked
  apiKeyCache,          \* ApiKeyService.apiKeyCache: the keys it accepts
  keyCalls,             \* the bag of ApiKeyService calls in flight
  activeConnections,    \* LogStreamingService.activeConnections (the ids)
  watchedFiles,         \* LogStreamingService.watchedFiles, the entry of the log file
  intervals,            \* the polling timers setInterval has started and nothing cleared
  starting              \* the startFileWatching calls suspended at `await stat`

(* the state of ApiKeyService and of LogStreamingService *)
keyVars == <<apiKeys, apiKeyCache, keyCalls>>

logVars == <<activeConnections, watchedFiles, intervals, starting>>

vars == <<store, jobs, scheduler, calls, execs, now, zone, isInitializing,
          expectedHandlerCount, hasLoggedReady, initStarted, graceTimer, logLines,
          keyVars, logVars>>

NameSeq == <<"a", "b">>
Names == { NameSeq[i] : i \in 1..Len(NameSeq) }

(* bags: the copies of the elements of S in a bag, and a bag mapped by F *)
RECURSIVE SumCopies(_, _)
SumCopies(S, bag) ==
  IF S = {} THEN 0
  ELSE LET x == CHOOSE y \in S : TRUE
       IN bag[x] + SumCopies(S \ {x}, bag)

MapBag(bag, F(_)) ==
  [y \in { F(x) : x \in BagToSet(bag) } |->
     SumCopies({ x \in BagToSet(bag) : F(x) = y }, bag)]

Put(bag, c) == bag (+) SetToBag({c})

Drop(bag, c) == bag (-) SetToBag({c})

Replace(bag, c, d) == Put(Drop(bag, c), d)

(* ------------------------------------------------------------------ *)
(* Schedule configurations                                            *)
(* ------------------------------------------------------------------ *)
IntervalCfg(d, h, m, s) ==
  [kind |-> "interval", days |-> d, hours |-> h, minutes |-> m, seconds |-> s,
   expression |-> ""]

CronCfg(e) ==
  [kind |-> "cron", days |-> 0, hours |-> 0, minutes |-> 0, seconds |-> 0,
   expression |-> e]

NoCfg == [kind |-> "none", days |-> 0, hours |-> 0, minutes |-> 0, seconds |-> 0,
          expression |-> ""]

DefaultConfig == IntervalCfg(0, 24, 0, 0)
CfgShort == IntervalCfg(0, 1, 30, 0)
CfgLong == IntervalCfg(30, 0, 0, 0)
CfgCron == CronCfg("0 * * * *")

(* request bodies that pass ScheduleConfigSchema / ScheduleUpdateSchema *)
Body(type, cfg) == [type |-> type, config |-> cfg]

(* ------------------------------------------------------------------ *)
(* Run records and rows                                               *)
(* ------------------------------------------------------------------ *)
NullRun == [time |-> 0, status |-> "null", error |-> "", estimated |-> FALSE]

Pending(t) == [time |-> t, status |-> "pending", error |-> "", estimated |-> TRUE]

Completed(t) == [time |-> t, status |-> "completed", error |-> "", estimated |-> FALSE]

Failed(t, msg) == [time |-> t, status |-> "failed", error |-> msg, estimated |-> FALSE]

NoRow == [type |-> "none", config |-> NoCfg, enabled |-> FALSE,
          last_run |-> NullRun, next_run |-> NullRun]

(* a value a handler throws: an Error with its message, or another value *)
(* with the text String(value) gives                                     *)
ThrownError(msg) == [kind |-> "error", message |-> msg, text |-> "Error: " \o msg]

ThrownValue(text) == [kind |-> "value", message |-> "", text |-> text]

NotThrown == [kind |-> "none", message |-> "", text |-> ""]

(* `error instanceof Error ? error.message : String(error)` *)
ErrorText(v) == IF v.kind = "error" THEN v.message ELSE v.text

(* ------------------------------------------------------------------ *)
(* Next-run computation                                               *)
(* ------------------------------------------------------------------ *)
(* Date works on local time: in the zone "DST" the clocks go forward one hour *)
(* at the instant ShiftAt, in the zone "UTC" they never move                  *)
Zones == {"UTC", "DST"}

ShiftAt == 12 * 3600

Offset(z, t) == IF z = "DST" /\ t >= ShiftAt THEN 3600 ELSE 0

(* the local time of an instant *)
LocalTime(z, t) == t + Offset(z, t)

(* the instant of a local time; a local time the shift skips is read with *)
(* the offset before the shift                                            *)
UTC(z, l) == IF z = "DST" /\ l >= ShiftAt + 3600 THEN l - 3600 ELSE l

(* `d.setX(d.getX() + n)`: n units later on the local clock *)
AddLocal(z, t, secs) == UTC(z, LocalTime(z, t) + secs)

IntervalNextRun(t, cfg) ==
  LET d1 == IF cfg.days # 0 THEN AddLocal(zone, t, cfg.days * 86400) ELSE t
      d2 == IF cfg.hours # 0 THEN AddLocal(zone, d1, cfg.hours * 3600) ELSE d1
      d3 == IF cfg.minutes # 0 THEN AddLocal(zone, d2, cfg.minutes * 60) ELSE d2
      d4 == IF cfg.seconds # 0 THEN AddLocal(zone, d3, cfg.seconds) ELSE d3
  IN d4

calculateNextCronRun(t, cfg) ==
  IF cfg.kind = "cron" THEN ((t \div 3600) + 1) * 3600 ELSE AddLocal(zone, t, 24 * 3600)

NextRunTime(t, type, cfg) ==
  IF type = "interval" THEN IntervalNextRun(t, cfg) ELSE calculateNextCronRun(t, cfg)

(* ------------------------------------------------------------------ *)
(* Jobs, the execution substrate (ToadScheduler) and the registry     *)
(* ------------------------------------------------------------------ *)
NoJob == [id |-> "", name |-> "", type |-> "none", config |-> NoCfg, handler |-> ""]

NoEntry == [present |-> FALSE, job |-> NoJob, handler |-> ""]

Entry(job, handler) == [present |-> TRUE, job |-> job, handler |-> handler]

(* seconds of an interval schedule (the substrate's toMsecs, in seconds) *)
ToSecs(cfg) == cfg.days * 86400 + cfg.hours * 3600 + cfg.minutes * 60 + cfg.seconds

(* new SimpleIntervalJob(...) refuses intervals of 2^31-1 ms (24.85 days) or   *)
(* more: 1000 * secs >= 2^31 - 1, which is secs > (2^31 - 1) \div 1000          *)
CreateJobThrows(type, cfg) ==
  \/ type = "interval" /\ ToSecs(cfg) > ((2^30 - 1) + 2^30) \div 1000
  \/ type \notin {"interval", "cron"}

(* a createJob that gives the job no id *)
createJobNoId(name, type, cfg, handler) ==
  [id |-> "", name |-> name, type |-> type, config |-> cfg, handler |-> handler]

createJob(name, type, cfg, handler) ==
  [id |-> name, name |-> name, type |-> type, config |-> cfg, handler |-> handler]

(* CronJob.start() parses the expression; a config without one makes it throw *)
StartThrows(job) == job.type = "cron" /\ job.config.kind # "cron"

(* scheduler.removeById(id): stop the job's timer and forget it *)
removeById(sch, id) ==
  LET keep == { e \in BagToSet(sch) : e.job.id # id }
  IN [e \in keep |-> sch[e]]

(* scheduler.addSimpleIntervalJob / addCronJob: register a job that has an   *)
(* id under it (a registered id throws), then start the timer (start may     *)
(* throw, leaving the job registered but without a timer).                   *)
Registered(job, started) == [job |-> job, started |-> started, executing |-> FALSE]

addJob(sch, job) ==
  IF job.id # "" /\ \E e \in BagToSet(sch) : e.job.id = job.id
  THEN [sch |-> sch, threw |-> TRUE]
  ELSE IF StartThrows(job)
       THEN [sch |-> Put(sch, Registered(job, FALSE)), threw |-> TRUE]
       ELSE [sch |-> Put(sch, Registered(job, TRUE)), threw |-> FALSE]

(* live triggers (started timers) whose task runs the job `n` *)
Triggers(sch, n) == { e \in BagToSet(sch) : e.job.name = n /\ e.started }

TriggerCount(sch, n) == SumCopies(Triggers(sch, n), sch)

(* ------------------------------------------------------------------ *)
(* Installing a trigger: the synchronous tails of the operations      *)
(* Each returns the registry entry and the substrate after the code,  *)
(* whether it completed (ok) and whether removeById ran (removed).    *)
(* ------------------------------------------------------------------ *)
Outcome(reg, sch, ok, removed) ==
  [reg |-> reg, sch |-> sch, ok |-> ok, removed |-> removed]

(* a scheduleJob that leaves every installation to the bulk load *)
InstallScheduleJobDefers(reg, sch, name, schedule, handler, existing) ==
  Outcome(reg, sch, TRUE, FALSE)

(* scheduleJob, `if (schedule?.enabled) { ... }` *)
InstallScheduleJob(reg, sch, name, schedule, handler, existing) ==
  IF schedule.type = "none" \/ ~schedule.enabled
  THEN Outcome(reg, sch, TRUE, FALSE)
  ELSE IF CreateJobThrows(schedule.type, schedule.config)
  THEN Outcome(reg, sch, FALSE, FALSE)
  ELSE LET job == createJob(name, schedule.type, schedule.config, handler)
           sch1 == IF existing THEN removeById(sch, name) ELSE sch
           added == addJob(sch1, job)
       IN IF added.threw
          THEN Outcome(reg, added.sch, FALSE, existing)
          ELSE Outcome(Entry(job, handler), added.sch, TRUE, existing)

(* initializeJobsFromDatabase, the body of the loop for one schedule *)
InstallInit(reg, sch, name, schedule) ==
  IF ~(reg.present /\ schedule.enabled)
  THEN Outcome(reg, sch, TRUE, FALSE)
  ELSE IF CreateJobThrows(schedule.type, schedule.config)
  THEN Outcome(reg, sch, FALSE, FALSE)
  ELSE LET job == createJob(name, schedule.type, schedule.config, reg.handler)
           sch1 == removeById(sch, name)
           added == addJob(sch1, job)
       IN IF added.threw
          THEN Outcome(reg, added.sch, FALSE, TRUE)
          ELSE Outcome(Entry(job, reg.handler), added.sch, TRUE, TRUE)

(* updateJobSchedule, branch "was enabled and should remain enabled" *)
InstallUpdateRebuild(reg, sch, name, updated, handler) ==
  LET sch1 == removeById(sch, name)
  IN IF CreateJobThrows(updated.type, updated.config)
     THEN Outcome(reg, sch1, FALSE, TRUE)
     ELSE LET job == createJob(name, updated.type, updated.config, handler)
              added == addJob(sch1, job)
          IN IF added.threw
             THEN Outcome(reg, added.sch, FALSE, TRUE)
             ELSE Outcome(Entry(job, handler), added.sch, TRUE, TRUE)

(* updateJobSchedule, branch "was disabled but should be enabled" *)
InstallUpdateEnable(reg, sch, name, updated, handler) ==
  IF CreateJobThrows(updated.type, updated.config)
  THEN Outcome(reg, sch, FALSE, FALSE)
  ELSE LET job == createJob(name, updated.type, updated.config, handler)
           added == addJob(sch, job)
       IN IF added.threw
          THEN Outcome(reg, added.sch, FALSE, FALSE)
          ELSE Outcome(Entry(job, handler), added.sch, TRUE, FALSE)

(* a disable that leaves the trigger in place *)
InstallUpdateDisableKeepsTrigger(reg, sch, name, handler) ==
  Outcome(Entry(NoJob, handler), sch, TRUE, FALSE)

(* updateJobSchedule, branch "was enabled but should be disabled" *)
InstallUpdateDisable(reg, sch, name, handler) ==
  Outcome(Entry(NoJob, handler), removeById(sch, name), TRUE, TRUE)

(* an unscheduleJob that keeps the handler of the entry *)
unscheduleJobKeepsHandler(reg, sch, name) ==
  IF reg.present
  THEN Outcome(Entry(NoJob, reg.handler), removeById(sch, name), TRUE, TRUE)
  ELSE Outcome(reg, sch, FALSE, FALSE)

(* unscheduleJob *)
unscheduleJob(reg, sch, name) ==
  IF reg.present
  THEN Outcome(NoEntry, removeById(sch, name), TRUE, TRUE)
  ELSE Outcome(reg, sch, FALSE, FALSE)

(* checkForCompletionReadiness: the new value of hasLoggedReady *)
checkForCompletionReadiness(jobsMap, expected, logged) ==
  IF logged \/ expected = 0
  THEN logged
  ELSE Cardinality({ n \in Names : jobsMap[n].present }) >= expected

(* ------------------------------------------------------------------ *)
(* Store methods on the rows of one name                              *)
(* ------------------------------------------------------------------ *)
NoUpdate == [hasConfig |-> FALSE, config |-> NoCfg, hasEnabled |-> FALSE, enabled |-> FALSE,
             hasLast |-> FALSE, last_run |-> NullRun, hasNext |-> FALSE, next_run |-> NullRun]

(* an update that inserts the row it does not find *)
updateScheduleUpserts(rows, u, fails) ==
  IF fails THEN rows
  ELSE IF rows = << >>
  THEN << [type |-> "interval", config |-> u.config, enabled |-> u.enabled,
           last_run |-> u.last_run, next_run |-> u.next_run] >>
  ELSE [i \in 1..Len(rows) |->
          [type |-> rows[i].type,
           config |-> IF u.hasConfig THEN u.config ELSE rows[i].config,
           enabled |-> IF u.hasEnabled THEN u.enabled ELSE rows[i].enabled,
           last_run |-> IF u.hasLast THEN u.last_run ELSE rows[i].last_run,
           next_run |-> IF u.hasNext THEN u.next_run ELSE rows[i].next_run]]

(* what updateSchedule returns: `updated > 0`, false when the query failed *)
Updated(rows, fails) == ~fails /\ Len(rows) > 0

(* updateSchedule: every row of the name takes the fields the update names; *)
(* a query that fails writes nothing (the method then returns false)       *)
updateSchedule(rows, u, fails) ==
  IF fails THEN rows ELSE
  [i \in 1..Len(rows) |->
     [type |-> rows[i].type,
      config |-> IF u.hasConfig THEN u.config ELSE rows[i].config,
      enabled |-> IF u.hasEnabled THEN u.enabled ELSE rows[i].enabled,
      last_run |-> IF u.hasLast THEN u.last_run ELSE rows[i].last_run,
      next_run |-> IF u.hasNext THEN u.next_run ELSE rows[i].next_run]]

(* a table without the constraint *)
NoConstraint(rows, row) == FALSE

(* the unique constraint of the schedules table on `name` *)
UniqueViolation(rows, row) == Len(rows) > 0

(* createSchedule: an insert; a failure of the query is rethrown *)
createSchedule(rows, row, fails) ==
  IF fails \/ UniqueViolation(rows, row)
  THEN [rows |-> rows, threw |-> TRUE]
  ELSE [rows |-> Append(rows, row), threw |-> FALSE]

(* deleteSchedule: every row of the name goes; false when none went or the *)
(* query failed                                                           *)
deleteSchedule(rows, fails) ==
  IF fails THEN [rows |-> rows, deleted |-> FALSE]
           ELSE [rows |-> << >>, deleted |-> Len(rows) > 0]

(* getScheduleByName: `.where({name}).first()`, any row of the name or null; *)
(* null also when the query failed                                          *)
getScheduleByName(rows, fails) ==
  IF fails \/ Len(rows) = 0 THEN {NoRow} ELSE { rows[i] : i \in 1..Len(rows) }

(* getAllSchedules: the rows of the table; none when the query failed *)
getAllSchedules(table, fails) ==
  [n \in DOMAIN table |-> IF fails THEN << >> ELSE table[n]]

(* what the callers read of a schedule: type, config and enabled *)
Read(row) == [row EXCEPT !.last_run = NullRun, !.next_run = NullRun]

(* a default row of one hour *)
DefaultRowHourly(t) ==
  [type |-> "interval", config |-> IntervalCfg(0, 1, 0, 0), enabled |-> TRUE,
   last_run |-> NullRun, next_run |-> Pending(IntervalNextRun(t, IntervalCfg(0, 1, 0, 0)))]

(* the row scheduleJob inserts when the name has none *)
DefaultRow(t) ==
  [type |-> "interval", config |-> DefaultConfig, enabled |-> TRUE,
   last_run |-> NullRun, next_run |-> Pending(IntervalNextRun(t, DefaultConfig))]

(* the row POST /schedules inserts *)
PostRow(type, cfg, enabled) ==
  [type |-> type, config |-> cfg, enabled |-> enabled,
   last_run |-> NullRun, next_run |-> NullRun]

(* the next_run updateJobSchedule computes from the schedule it read *)
JobScheduleNextRun(schedule, cfg, t) ==
  Pending(NextRunTime(t, schedule.type, IF cfg # NoCfg THEN cfg ELSE schedule.config))

(* the update updateJobSchedule writes *)
JobScheduleUpdate(cfg, en, nextRun) ==
  [NoUpdate EXCEPT
     !.hasConfig = (cfg # NoCfg), !.config = cfg,
     !.hasEnabled = (en # "undef"), !.enabled = (en = "true"),
     !.hasNext = TRUE, !.next_run = nextRun]

LastRunUpdate(run) == [NoUpdate EXCEPT !.hasLast = TRUE, !.last_run = run]

NextRunUpdate(run) == [NoUpdate EXCEPT !.hasNext = TRUE, !.next_run = run]

(* ------------------------------------------------------------------ *)
(* ApiKeyService and the api_keys table                               *)
(* ------------------------------------------------------------------ *)
KeyIds == {1, 2}

(* getActiveApiKeys: the keys whose row is active *)
getActiveApiKeys(table) == { k \in KeyIds : table[k] = "active" }

(* revokeApiKey of the store: every row of the id is set inactive; the *)
(* result is whether a row matched                                     *)
revokeApiKeyRow(table, id) ==
  [table |-> IF table[id] = "absent" THEN table ELSE [table EXCEPT ![id] = "revoked"],
   result |-> table[id] # "absent"]

(* verifyAndGetUser: the user of the key, or null *)
verifyAndGetUser(cache, k) == k \in cache

(* ------------------------------------------------------------------ *)
(* LogStreamingService                                                *)
(* ------------------------------------------------------------------ *)
ConnectionIds == {"c1", "c2", "c3"}

(* setInterval gives out no more than this many timers *)
MaxTimers == 4

(* watchedFiles has no entry of the log file *)
NoWatch == [present |-> FALSE, interval |-> 0]

(* the entry of the log file, its interval not yet set (0) or a timer id *)
Watch(interval) == [present |-> TRUE, interval |-> interval]

(* ------------------------------------------------------------------ *)
(* State                                                              *)
(* ------------------------------------------------------------------ *)
EmptySnap == [n \in Names |-> << >>]

IdleCall ==
  [op |-> "idle", name |-> "", pc |-> "idle", handler |-> "", cfg |-> NoCfg,
   type |-> "none", en |-> "undef", sched |-> NoRow, existing |-> FALSE,
   branch |-> "", thrown |-> NotThrown, run |-> NullRun, result |-> "none", tag |-> "",
   fault |-> "", updated |-> FALSE, asked |-> "undef", snap |-> EmptySnap]

NewCall(op, n) == [IdleCall EXCEPT !.op = op, !.name = n]

(* a finished call, until its caller takes the result *)
Done(c, result, tag) ==
  [IdleCall EXCEPT !.op = c.op, !.name = c.name, !.pc = "done",
                   !.result = result, !.tag = tag, !.fault = c.fault]

(* the call notes the store query that failed last *)
Mark(c, fails, kind) == IF fails THEN [c EXCEPT !.fault = kind] ELSE c

NewExec(job) ==
  [pc |-> "handler", job |-> job, attached |-> TRUE, thrown |-> NotThrown, run |-> NullRun]

InFlight == BagCardinality(calls) + BagCardinality(execs)

(* a further call or execution may start beside those in flight *)
Room == InFlight < MaxInFlight

(* nothing is in flight *)
Quiet == InFlight = 0

(* executions of the jobs whose trigger was removed run on, detached from it *)
Detach(ex, removed, n) ==
  IF removed
  THEN MapBag(ex, LAMBDA x : IF x.job.id = n THEN [x EXCEPT !.attached = FALSE] ELSE x)
  ELSE ex

(* the server listens once the onReady hook has returned *)
Listening == initStarted /\ \A c \in BagToSet(calls) : c.op # "init"

(* rows a stopped process may have left in the table *)
InitialRows ==
  { << >>,
    << DefaultRow(0) >>,
    << [DefaultRow(0) EXCEPT !.enabled = FALSE] >> }

(* the job the single-job specifications run *)
One == {"a"}

(* the tables in which the names of `used` have the rows of `rows` *)
Tables(used, rows) ==
  { t \in [Names -> rows \cup {<< >>}] :
      \A n \in Names : (n \in used => t[n] \in rows) /\ (n \notin used => t[n] = << >>) }

(* ApiKeyService and LogStreamingService after construction, nothing stored *)
ServicesIdle ==
  /\ apiKeys = [k \in KeyIds |-> "absent"]
  /\ apiKeyCache = {}
  /\ keyCalls = EmptyBag
  /\ activeConnections = {}
  /\ watchedFiles = NoWatch
  /\ intervals = {}
  /\ starting = EmptyBag

(* the state after construction, the process running in one of the zones *)
Start(zones) ==
  /\ zone \in zones
  /\ store \in Tables(One, InitialRows)
  /\ logLines = {}
  /\ ServicesIdle
  /\ jobs = [n \in Names |-> NoEntry]
  /\ scheduler = EmptyBag
  /\ calls = EmptyBag
  /\ execs = EmptyBag
  /\ now = 0
  /\ isInitializing = TRUE
  /\ expectedHandlerCount = 0
  /\ hasLoggedReady = FALSE
  /\ initStarted = FALSE
  /\ graceTimer = FALSE

Init == Start({"UTC"})

(* ------------------------------------------------------------------ *)
(* scheduleJob                                                        *)
(* ------------------------------------------------------------------ *)
(* up to the first await: record the handler, keep the existing job *)
ScheduleJobStart(n, h) ==
  /\ jobs' = [jobs EXCEPT ![n] = IF jobs[n].present THEN Entry(jobs[n].job, h)
                                                    ELSE Entry(NoJob, h)]
  /\ calls' = Put(calls, [NewCall("scheduleJob", n) EXCEPT
                            !.pc = "sj_get", !.handler = h, !.existing = jobs[n].present])
  /\ UNCHANGED <<store, scheduler, execs, now, zone, isInitializing, expectedHandlerCount,
                 hasLoggedReady, initStarted, graceTimer,
                 logLines, keyVars, logVars>>

(* getScheduleByName; with no row the continuation builds the default row *)
(* and issues the insert                                                  *)
ScheduleJobReads(c, f) ==
  /\ c.pc = "sj_get"
  /\ \E row \in getScheduleByName(store[c.name], f) :
       calls' = Replace(calls, c,
                  IF row = NoRow
                  THEN [Mark(c, f, "read") EXCEPT !.pc = "sj_create",
                                                  !.run = DefaultRow(now).next_run]
                  ELSE [c EXCEPT !.pc = "sj_install", !.sched = Read(row)])
  /\ UNCHANGED <<store, jobs, scheduler, execs, now, zone, isInitializing,
                 expectedHandlerCount, hasLoggedReady, initStarted, graceTimer,
                 logLines, keyVars, logVars>>

(* createSchedule; its continuation issues the second read, or returns *)
(* false when the insert threw                                         *)
ScheduleJobInserts(c, f) ==
  LET ins == createSchedule(store[c.name], [DefaultRow(now) EXCEPT !.next_run = c.run], f)
  IN /\ c.pc = "sj_create"
     /\ store' = [store EXCEPT ![c.name] = ins.rows]
     /\ calls' = Replace(calls, c,
                   IF ins.threw THEN Done(Mark(c, f, "write"), "false", "insertfailed")
                                ELSE [c EXCEPT !.pc = "sj_get2", !.run = NullRun,
                                               !.tag = "created"])
     /\ UNCHANGED <<jobs, scheduler, execs, now, zone, isInitializing, expectedHandlerCount,
                    hasLoggedReady, initStarted, graceTimer,
                    logLines, keyVars, logVars>>

(* the second getScheduleByName *)
ScheduleJobReadsAgain(c, f) ==
  /\ c.pc = "sj_get2"
  /\ \E row \in getScheduleByName(store[c.name], f) :
       calls' = Replace(calls, c, [Mark(c, f, "read") EXCEPT !.pc = "sj_install",
                                                             !.sched = Read(row)])
  /\ UNCHANGED <<store, jobs, scheduler, execs, now, zone, isInitializing,
                 expectedHandlerCount, hasLoggedReady, initStarted, graceTimer,
                 logLines, keyVars, logVars>>

(* from `if (schedule?.enabled)` to the return *)
ScheduleJobInstalls(c) ==
  LET out == InstallScheduleJob(jobs[c.name], scheduler, c.name, c.sched, c.handler,
                                c.existing)
      jobs1 == [jobs EXCEPT ![c.name] = out.reg]
  IN /\ c.pc = "sj_install"
     /\ jobs' = jobs1
     /\ scheduler' = out.sch
     /\ execs' = Detach(execs, out.removed, c.name)
     /\ hasLoggedReady' = IF out.ok
                          THEN checkForCompletionReadiness(jobs1, expectedHandlerCount,
                                                           hasLoggedReady)
                          ELSE hasLoggedReady
     /\ calls' = Replace(calls, c,
                   [Done(c, IF out.ok THEN "true" ELSE "false", c.tag)
                      EXCEPT !.handler = c.handler])
     /\ UNCHANGED <<store, now, zone, isInitializing, expectedHandlerCount, initStarted,
                    graceTimer,
                    logLines, keyVars, logVars>>

(* ------------------------------------------------------------------ *)
(* The /schedules routes                                              *)
(* Each route first awaits getScheduleByName(name); POST, PUT and     *)
(* PATCH toggle then call updateJobSchedule, POST run calls runJobNow. *)
(* ------------------------------------------------------------------ *)
(* ScheduleConfigSchema: `enabled: z.boolean().optional().default(true)` *)
ScheduleConfigEnabled(en) == IF en = "undef" THEN "true" ELSE en

(* `asked` keeps the enabled of the request as it was sent *)
PostSchedules(n, body, en) ==
  /\ Listening
  /\ calls' = Put(calls, [NewCall("post", n) EXCEPT
                            !.pc = "r_get", !.type = body.type, !.cfg = body.config,
                            !.en = ScheduleConfigEnabled(en), !.asked = en])
  /\ UNCHANGED <<store, jobs, scheduler, execs, now, zone, isInitializing,
                 expectedHandlerCount, hasLoggedReady, initStarted, graceTimer,
                 logLines, keyVars, logVars>>

PutSchedule(n, cfg, en) ==
  /\ Listening
  /\ calls' = Put(calls, [NewCall("put", n) EXCEPT !.pc = "r_get", !.cfg = cfg, !.en = en,
                                                   !.asked = en])
  /\ UNCHANGED <<store, jobs, scheduler, execs, now, zone, isInitializing,
                 expectedHandlerCount, hasLoggedReady, initStarted, graceTimer,
                 logLines, keyVars, logVars>>

ToggleSchedule(n, en) ==
  /\ Listening
  /\ calls' = Put(calls, [NewCall("toggle", n) EXCEPT !.pc = "r_get", !.en = en,
                                                      !.asked = en])
  /\ UNCHANGED <<store, jobs, scheduler, execs, now, zone, isInitializing,
                 expectedHandlerCount, hasLoggedReady, initStarted, graceTimer,
                 logLines, keyVars, logVars>>

DeleteScheduleRoute(n) ==
  /\ Listening
  /\ calls' = Put(calls, [NewCall("delete", n) EXCEPT !.pc = "r_get"])
  /\ UNCHANGED <<store, jobs, scheduler, execs, now, zone, isInitializing,
                 expectedHandlerCount, hasLoggedReady, initStarted, graceTimer,
                 logLines, keyVars, logVars>>

GetScheduleRoute(n) ==
  /\ Listening
  /\ calls' = Put(calls, [NewCall("get", n) EXCEPT !.pc = "r_get"])
  /\ UNCHANGED <<store, jobs, scheduler, execs, now, zone, isInitializing,
                 expectedHandlerCount, hasLoggedReady, initStarted, graceTimer,
                 logLines, keyVars, logVars>>

GetSchedulesRoute ==
  /\ Listening
  /\ calls' = Put(calls, [NewCall("list", "") EXCEPT !.pc = "l_all"])
  /\ UNCHANGED <<store, jobs, scheduler, execs, now, zone, isInitializing,
                 expectedHandlerCount, hasLoggedReady, initStarted, graceTimer,
                 logLines, keyVars, logVars>>

(* GET /schedules: getAllSchedules, and the list is the answer *)
ListReads(c, f) ==
  /\ c.pc = "l_all"
  /\ calls' = Replace(calls, c,
                [Done(Mark(c, f, "read"), "200", "list")
                   EXCEPT !.snap = [n \in Names |->
                                      [k \in 1..Len(getAllSchedules(store, f)[n]) |->
                                         Read(getAllSchedules(store, f)[n][k])]]])
  /\ UNCHANGED <<store, jobs, scheduler, execs, now, zone, isInitializing,
                 expectedHandlerCount, hasLoggedReady, initStarted, graceTimer,
                 logLines, keyVars, logVars>>

RunScheduleRoute(n) ==
  /\ Listening
  /\ calls' = Put(calls, [NewCall("run", n) EXCEPT !.pc = "r_get"])
  /\ UNCHANGED <<store, jobs, scheduler, execs, now, zone, isInitializing,
                 expectedHandlerCount, hasLoggedReady, initStarted, graceTimer,
                 logLines, keyVars, logVars>>

(* routes that go on without the row *)
RouteAfterCheckUnguarded(c, row) ==
  CASE c.op = "post" -> [c EXCEPT !.pc = IF row = NoRow THEN "p_create" ELSE "u_get"]
    [] c.op \in {"put", "toggle"} -> [c EXCEPT !.pc = "u_get", !.type = "none"]
    [] c.op = "get" -> [Done(c, "200", "found") EXCEPT !.sched = Read(row)]
    [] c.op = "delete" -> [c EXCEPT !.pc = "d_unschedule"]
    [] c.op = "run" -> [c EXCEPT !.pc = "run_start"]

(* what a route does once getScheduleByName has answered *)
RouteAfterCheck(c, row) ==
  IF row = NoRow
  THEN IF c.op = "post" THEN [c EXCEPT !.pc = "p_create"]
                        ELSE Done(c, "404", "notfound")
  ELSE CASE c.op \in {"post", "put", "toggle"} -> [c EXCEPT !.pc = "u_get", !.type = "none"]
         [] c.op = "get" -> [Done(c, "200", "found") EXCEPT !.sched = Read(row)]
         [] c.op = "delete" -> [c EXCEPT !.pc = "d_unschedule"]
         [] c.op = "run" -> [c EXCEPT !.pc = "run_start"]

(* the existence check of a route *)
RouteChecks(c, f) ==
  /\ c.pc = "r_get"
  /\ \E row \in getScheduleByName(store[c.name], f) :
       calls' = Replace(calls, c, RouteAfterCheck(Mark(c, f, "read"), row))
  /\ UNCHANGED <<store, jobs, scheduler, execs, now, zone, isInitializing,
                 expectedHandlerCount, hasLoggedReady, initStarted, graceTimer,
                 logLines, keyVars, logVars>>

(* createSchedule of POST /schedules; the route answers 200, or 500 when *)
(* the insert threw                                                      *)
PostInserts(c, f) ==
  LET ins == createSchedule(store[c.name], PostRow(c.type, c.cfg, c.en = "true"), f)
  IN /\ c.pc = "p_create"
     /\ store' = [store EXCEPT ![c.name] = ins.rows]
     /\ calls' = Replace(calls, c,
                   IF ins.threw THEN Done(Mark(c, f, "write"), "500", "insertfailed")
                                ELSE Done(c, "200", "created"))
     /\ UNCHANGED <<jobs, scheduler, execs, now, zone, isInitializing, expectedHandlerCount,
                    hasLoggedReady, initStarted, graceTimer,
                    logLines, keyVars, logVars>>

(* DELETE: unscheduleJob, then the delete is issued *)
DeleteUnschedules(c) ==
  LET out == unscheduleJob(jobs[c.name], scheduler, c.name)
  IN /\ c.pc = "d_unschedule"
     /\ jobs' = [jobs EXCEPT ![c.name] = out.reg]
     /\ scheduler' = out.sch
     /\ execs' = Detach(execs, out.removed, c.name)
     /\ calls' = Replace(calls, c, [c EXCEPT !.pc = "d_delete", !.existing = out.ok])
     /\ UNCHANGED <<store, now, zone, isInitializing, expectedHandlerCount, hasLoggedReady,
                    initStarted, graceTimer,
                    logLines, keyVars, logVars>>

(* DELETE: deleteSchedule; the route answers 200, or 500 when no row went *)
DeleteDeletes(c, f) ==
  /\ c.pc = "d_delete"
  /\ store' = [store EXCEPT ![c.name] = deleteSchedule(@, f).rows]
  /\ calls' = Replace(calls, c,
                Done(Mark(c, f, "write"),
                     IF deleteSchedule(store[c.name], f).deleted THEN "200" ELSE "500",
                     IF c.existing THEN "unscheduled" ELSE "deleted"))
  /\ UNCHANGED <<jobs, scheduler, execs, now, zone, isInitializing, expectedHandlerCount,
                 hasLoggedReady, initStarted, graceTimer,
                 logLines, keyVars, logVars>>

(* ------------------------------------------------------------------ *)
(* runJobNow                                                          *)
(* ------------------------------------------------------------------ *)
(* look the job up and invoke its handler *)
RunJobNowStart(c) ==
  /\ c.pc = "run_start"
  /\ calls' = Replace(calls, c,
                IF jobs[c.name].present
                THEN [c EXCEPT !.pc = "run_handler", !.handler = jobs[c.name].handler]
                ELSE Done(c, "500", "nohandler"))
  /\ UNCHANGED <<store, jobs, scheduler, execs, now, zone, isInitializing,
                 expectedHandlerCount, hasLoggedReady, initStarted, graceTimer,
                 logLines, keyVars, logVars>>

RunJobNowReturns(c) ==
  /\ c.pc = "run_handler"
  /\ calls' = Replace(calls, c, [c EXCEPT !.pc = "run_write", !.run = Completed(now),
                                          !.result = "200"])
  /\ UNCHANGED <<store, jobs, scheduler, execs, now, zone, isInitializing,
                 expectedHandlerCount, hasLoggedReady, initStarted, graceTimer,
                 logLines, keyVars, logVars>>

RunJobNowThrows(c, v) ==
  /\ c.pc = "run_handler"
  /\ calls' = Replace(calls, c, [c EXCEPT !.pc = "run_write", !.thrown = v,
                                          !.run = Failed(now, ErrorText(v)),
                                          !.result = "500"])
  /\ UNCHANGED <<store, jobs, scheduler, execs, now, zone, isInitializing,
                 expectedHandlerCount, hasLoggedReady, initStarted, graceTimer,
                 logLines, keyVars, logVars>>

(* a manual run that also moves next_run *)
ManualRunUpdateMovesNextRun(run) ==
  [NoUpdate EXCEPT !.hasLast = TRUE, !.last_run = run,
                   !.hasNext = TRUE, !.next_run = Pending(run.time)]

(* the update runJobNow writes *)
ManualRunUpdate(run) == LastRunUpdate(run)

(* the last_run write of runJobNow; its continuation returns *)
RunJobNowWrites(c, f) ==
  /\ c.pc = "run_write"
  /\ store' = [store EXCEPT ![c.name] = updateSchedule(@, ManualRunUpdate(c.run), f)]
  /\ calls' = Replace(calls, c,
                [Done(Mark(c, f, "write"), c.result, c.run.status)
                   EXCEPT !.updated = Updated(store[c.name], f)])
  /\ UNCHANGED <<jobs, scheduler, execs, now, zone, isInitializing, expectedHandlerCount,
                 hasLoggedReady, initStarted, graceTimer,
                 logLines, keyVars, logVars>>

(* ------------------------------------------------------------------ *)
(* updateJobSchedule                                                  *)
(* ------------------------------------------------------------------ *)
(* getScheduleByName; the continuation builds the update and issues it *)
UpdateReads(c, f) ==
  /\ c.pc = "u_get"
  /\ \E row \in getScheduleByName(store[c.name], f) :
       calls' = Replace(calls, c,
                  IF row = NoRow
                  THEN Done(Mark(c, f, "read"), "500", "nonexistent")
                  ELSE [c EXCEPT !.pc = "u_update",
                                 !.sched = [NoRow EXCEPT !.type = "read",
                                                         !.enabled = row.enabled],
                                 !.run = JobScheduleNextRun(row, c.cfg, now)])
  /\ UNCHANGED <<store, jobs, scheduler, execs, now, zone, isInitializing,
                 expectedHandlerCount, hasLoggedReady, initStarted, graceTimer,
                 logLines, keyVars, logVars>>

(* updateSchedule(name, updates) *)
UpdateWrites(c, f) ==
  /\ c.pc = "u_update"
  /\ store' = [store EXCEPT ![c.name] =
                 updateSchedule(@, JobScheduleUpdate(c.cfg, c.en, c.run), f)]
  /\ calls' = Replace(calls, c, [Mark(c, f, "write") EXCEPT !.pc = "u_afterUpdate",
                                                            !.run = NullRun, !.cfg = NoCfg])
  /\ UNCHANGED <<jobs, scheduler, execs, now, zone, isInitializing, expectedHandlerCount,
                 hasLoggedReady, initStarted, graceTimer,
                 logLines, keyVars, logVars>>

(* the branch updateJobSchedule takes after the write *)
UpdateBranch(schedule, en) ==
  IF schedule.enabled /\ en # "false" THEN "rebuild"
  ELSE IF ~schedule.enabled /\ en = "true" THEN "enable"
  ELSE IF schedule.enabled /\ en = "false" THEN "disable"
  ELSE "none"

(* the continuation of the write: look the job up, choose the branch *)
UpdateAfterWrite(c) ==
  LET br == UpdateBranch(c.sched, c.en)
      out == InstallUpdateDisable(jobs[c.name], scheduler, c.name, jobs[c.name].handler)
  IN /\ c.pc = "u_afterUpdate"
     /\ IF jobs[c.name].present /\ br = "disable"
        THEN /\ jobs' = [jobs EXCEPT ![c.name] = out.reg]
             /\ scheduler' = out.sch
             /\ execs' = Detach(execs, out.removed, c.name)
             /\ calls' = Replace(calls, c, Done(c, "200", "disable"))
        ELSE /\ calls' = Replace(calls, c,
                           IF ~jobs[c.name].present THEN Done(c, "200", "nohandler")
                           ELSE IF br = "none" THEN Done(c, "200", "none")
                           ELSE [c EXCEPT !.pc = "u_get2", !.branch = br,
                                          !.sched = NoRow, !.en = "undef",
                                          !.handler = jobs[c.name].handler])
             /\ UNCHANGED <<jobs, scheduler, execs>>
     /\ UNCHANGED <<store, now, zone, isInitializing, expectedHandlerCount, hasLoggedReady,
                    initStarted, graceTimer,
                    logLines, keyVars, logVars>>

(* the second getScheduleByName *)
UpdateReadsAgain(c, f) ==
  /\ c.pc = "u_get2"
  /\ \E row \in getScheduleByName(store[c.name], f) :
       calls' = Replace(calls, c, [Mark(c, f, "read") EXCEPT !.pc = "u_install",
                                                             !.sched = Read(row)])
  /\ UNCHANGED <<store, jobs, scheduler, execs, now, zone, isInitializing,
                 expectedHandlerCount, hasLoggedReady, initStarted, graceTimer,
                 logLines, keyVars, logVars>>

(* the continuation of the second read: build and install the trigger *)
UpdateInstalls(c) ==
  LET out == IF c.branch = "rebuild"
             THEN InstallUpdateRebuild(jobs[c.name], scheduler, c.name, c.sched, c.handler)
             ELSE InstallUpdateEnable(jobs[c.name], scheduler, c.name, c.sched, c.handler)
  IN /\ c.pc = "u_install"
     /\ IF c.sched = NoRow
        THEN /\ calls' = Replace(calls, c, Done(c, "500", "vanished"))
             /\ UNCHANGED <<jobs, scheduler, execs>>
        ELSE /\ jobs' = [jobs EXCEPT ![c.name] = out.reg]
             /\ scheduler' = out.sch
             /\ execs' = Detach(execs, out.removed, c.name)
             /\ calls' = Replace(calls, c,
                           Done(c, IF out.ok THEN "200" ELSE "500", c.branch))
     /\ UNCHANGED <<store, now, zone, isInitializing, expectedHandlerCount, hasLoggedReady,
                    initStarted, graceTimer,
                    logLines, keyVars, logVars>>

(* the caller takes the result *)
Return(c) ==
  /\ c.pc = "done"
  /\ calls' = Drop(calls, c)
  /\ UNCHANGED <<store, jobs, scheduler, execs, now, zone, isInitializing,
                 expectedHandlerCount, hasLoggedReady, initStarted, graceTimer,
                 logLines, keyVars, logVars>>

(* ------------------------------------------------------------------ *)
(* Trigger-fired executions: the task createJob wraps the handler in  *)
(* ------------------------------------------------------------------ *)
(* a tick of a started job; preventOverrun skips it while its task executes *)
Fire(e) ==
  /\ e.started
  /\ ~e.executing
  /\ scheduler' = Replace(scheduler, e, [e EXCEPT !.executing = TRUE])
  /\ execs' = Put(execs, NewExec(e.job))
  /\ UNCHANGED <<store, jobs, calls, now, zone, isInitializing, expectedHandlerCount,
                 hasLoggedReady, initStarted, graceTimer,
                 logLines, keyVars, logVars>>

ExecHandlerReturns(x) ==
  /\ x.pc = "handler"
  /\ execs' = Replace(execs, x, [x EXCEPT !.pc = "w_last", !.run = Completed(now)])
  /\ UNCHANGED <<store, jobs, scheduler, calls, now, zone, isInitializing,
                 expectedHandlerCount, hasLoggedReady, initStarted, graceTimer,
                 logLines, keyVars, logVars>>

ExecHandlerThrows(x, v) ==
  /\ x.pc = "handler"
  /\ execs' = Replace(execs, x, [x EXCEPT !.pc = "w_fail", !.thrown = v,
                                          !.run = Failed(now, ErrorText(v))])
  /\ UNCHANGED <<store, jobs, scheduler, calls, now, zone, isInitializing,
                 expectedHandlerCount, hasLoggedReady, initStarted, graceTimer,
                 logLines, keyVars, logVars>>

(* the task has ended: its isExecuting flag falls *)
TaskEnded(sch, x) ==
  IF x.attached
  THEN MapBag(sch, LAMBDA e : IF e.job = x.job THEN [e EXCEPT !.executing = FALSE] ELSE e)
  ELSE sch

(* the last_run write; its continuation computes next_run from the job's own *)
(* type and config and issues the next write                                 *)
ExecWritesLastRun(x, f) ==
  /\ x.pc = "w_last"
  /\ store' = [store EXCEPT ![x.job.name] = updateSchedule(@, LastRunUpdate(x.run), f)]
  /\ execs' = Replace(execs, x,
                [x EXCEPT !.pc = "w_next",
                          !.run = Pending(NextRunTime(now, x.job.type, x.job.config))])
  /\ UNCHANGED <<jobs, scheduler, calls, now, zone, isInitializing, expectedHandlerCount,
                 hasLoggedReady, initStarted, graceTimer,
                 logLines, keyVars, logVars>>

ExecWritesNextRun(x, f) ==
  /\ x.pc = "w_next"
  /\ store' = [store EXCEPT ![x.job.name] = updateSchedule(@, NextRunUpdate(x.run), f)]
  /\ scheduler' = TaskEnded(scheduler, x)
  /\ execs' = Drop(execs, x)
  /\ UNCHANGED <<jobs, calls, now, zone, isInitializing, expectedHandlerCount,
                 hasLoggedReady, initStarted, graceTimer,
                 logLines, keyVars, logVars>>

ExecWritesFailure(x, f) ==
  /\ x.pc = "w_fail"
  /\ store' = [store EXCEPT ![x.job.name] = updateSchedule(@, LastRunUpdate(x.run), f)]
  /\ scheduler' = TaskEnded(scheduler, x)
  /\ execs' = Drop(execs, x)
  /\ UNCHANGED <<jobs, calls, now, zone, isInitializing, expectedHandlerCount,
                 hasLoggedReady, initStarted, graceTimer,
                 logLines, keyVars, logVars>>

(* ------------------------------------------------------------------ *)
(* initializeJobsFromDatabase (the onReady hook)                      *)
(* ------------------------------------------------------------------ *)
InitializeStart ==
  /\ ~initStarted
  /\ initStarted' = TRUE
  /\ calls' = Put(calls, [NewCall("init", "") EXCEPT !.pc = "i_all"])
  /\ UNCHANGED <<store, jobs, scheduler, execs, now, zone, isInitializing,
                 expectedHandlerCount, hasLoggedReady, graceTimer,
                 logLines, keyVars, logVars>>

(* getAllSchedules *)
InitializeReads(c, f) ==
  /\ c.pc = "i_all"
  /\ calls' = Replace(calls, c,
                [Mark(c, f, "read") EXCEPT
                   !.pc = "i_loop",
                   !.snap = [n \in Names |->
                               [k \in 1..Len(getAllSchedules(store, f)[n]) |->
                                  Read(getAllSchedules(store, f)[n][k])]]])
  /\ UNCHANGED <<store, jobs, scheduler, execs, now, zone, isInitializing,
                 expectedHandlerCount, hasLoggedReady, initStarted, graceTimer,
                 logLines, keyVars, logVars>>

(* the loaded schedules, in table order *)
RECURSIVE Loaded(_, _)
Loaded(snap, i) ==
  IF i > Len(NameSeq) THEN << >>
  ELSE [k \in 1..Len(snap[NameSeq[i]]) |->
          [name |-> NameSeq[i], row |-> snap[NameSeq[i]][k]]] \o Loaded(snap, i + 1)

(* a loop that gives up at the first schedule whose trigger cannot be set up *)
RECURSIVE InitLoopStopsAtError(_, _, _, _)
InitLoopStopsAtError(list, jobsMap, sch, ex) ==
  IF list = << >> THEN [jobs |-> jobsMap, sch |-> sch, execs |-> ex]
  ELSE LET n == Head(list).name
           out == InstallInit(jobsMap[n], sch, n, Head(list).row)
       IN IF ~out.ok
          THEN [jobs |-> jobsMap, sch |-> out.sch, execs |-> Detach(ex, out.removed, n)]
          ELSE InitLoopStopsAtError(Tail(list), [jobsMap EXCEPT ![n] = out.reg], out.sch,
                                    Detach(ex, out.removed, n))

(* the loop over the loaded schedules *)
RECURSIVE InitLoop(_, _, _, _)
InitLoop(list, jobsMap, sch, ex) ==
  IF list = << >> THEN [jobs |-> jobsMap, sch |-> sch, execs |-> ex]
  ELSE LET n == Head(list).name
           out == InstallInit(jobsMap[n], sch, n, Head(list).row)
       IN InitLoop(Tail(list), [jobsMap EXCEPT ![n] = out.reg], out.sch,
                   Detach(ex, out.removed, n))

(* the lines the loop logs for the schedules without a handler: a debug line *)
(* during initialization, a warning after it                                *)
MissingHandlerLines(list, jobsMap, initializing) ==
  { [level |-> IF initializing THEN "debug" ELSE "warn", name |-> list[i].name] :
      i \in { k \in 1..Len(list) : ~jobsMap[list[k].name].present } }

EnabledCount(list) == Cardinality({ i \in 1..Len(list) : list[i].row.enabled })

(* the continuation of getAllSchedules, up to arming the timer *)
InitializeLoop(c) ==
  LET list == Loaded(c.snap, 1)
      out == InitLoop(list, jobs, scheduler, execs)
  IN /\ c.pc = "i_loop"
     /\ jobs' = out.jobs
     /\ scheduler' = out.sch
     /\ execs' = out.execs
     /\ expectedHandlerCount' = EnabledCount(list)
     /\ hasLoggedReady' = checkForCompletionReadiness(out.jobs, EnabledCount(list),
                                                      hasLoggedReady)
     /\ graceTimer' = TRUE
     /\ logLines' = logLines \cup MissingHandlerLines(list, jobs, isInitializing)
     /\ calls' = Replace(calls, c, Done(c, "void", ""))
     /\ UNCHANGED <<store, now, zone, isInitializing, initStarted, keyVars, logVars>>

(* the 5000 ms timer: the startup phase ends *)
GraceElapsed ==
  /\ graceTimer
  /\ graceTimer' = FALSE
  /\ isInitializing' = FALSE
  /\ hasLoggedReady' = checkForCompletionReadiness(jobs, expectedHandlerCount,
                                                   hasLoggedReady)
  /\ UNCHANGED <<store, jobs, scheduler, calls, execs, now, zone, expectedHandlerCount,
                 initStarted,
                 logLines, keyVars, logVars>>

(* ------------------------------------------------------------------ *)
(* Specifications                                                     *)
(* ------------------------------------------------------------------ *)
Enabledness == {"true", "false"}

(* the enabled of a request: given, or left out *)
Requested == Enabledness \cup {"undef"}

(* PUT bodies: a config or none, enabled or not given; a PUT with no config *)
(* and a given enabled is the call PATCH toggle makes                       *)
PutBodies(B) ==
  { [config |-> b.config, en |-> en] : b \in B, en \in Enabledness \cup {"undef"} }
    \cup { [config |-> NoCfg, en |-> "undef"] }

(* the store queries succeed / a store query may fail *)
NoFaults == {FALSE}
Faults == {FALSE, TRUE}

(* Overlapping calls and executions, on the smallest inputs: the handlers   *)
(* the plugins register, the bodies the clients send and the values the     *)
(* handlers throw.                                                          *)
Handlers == {"h1"}
Bodies == { Body("interval", DefaultConfig) }
Thrown == { ThrownError("boom") }

Next ==
  \/ \E n \in One, h \in Handlers : Room /\ ScheduleJobStart(n, h)
  \/ \E c \in BagToSet(calls), f \in NoFaults : ScheduleJobReads(c, f)
  \/ \E c \in BagToSet(calls), f \in NoFaults : ScheduleJobInserts(c, f)
  \/ \E c \in BagToSet(calls), f \in NoFaults : ScheduleJobReadsAgain(c, f)
  \/ \E c \in BagToSet(calls) : ScheduleJobInstalls(c)
  \/ \E n \in One, b \in Bodies, en \in Enabledness : Room /\ PostSchedules(n, b, en)
  \/ \E n \in One, b \in PutBodies(Bodies) : Room /\ PutSchedule(n, b.config, b.en)
  \/ \E n \in One, en \in Enabledness : Room /\ ToggleSchedule(n, en)
  \/ \E n \in One : Room /\ DeleteScheduleRoute(n)
  \/ \E n \in One : Room /\ GetScheduleRoute(n)
  \/ Room /\ GetSchedulesRoute
  \/ \E c \in BagToSet(calls), f \in NoFaults : ListReads(c, f)
  \/ \E n \in One : Room /\ RunScheduleRoute(n)
  \/ \E c \in BagToSet(calls), f \in NoFaults : RouteChecks(c, f)
  \/ \E c \in BagToSet(calls), f \in NoFaults : PostInserts(c, f)
  \/ \E c \in BagToSet(calls) : DeleteUnschedules(c)
  \/ \E c \in BagToSet(calls), f \in NoFaults : DeleteDeletes(c, f)
  \/ \E c \in BagToSet(calls) : RunJobNowStart(c)
  \/ \E c \in BagToSet(calls) : RunJobNowReturns(c)
  \/ \E c \in BagToSet(calls), v \in Thrown : RunJobNowThrows(c, v)
  \/ \E c \in BagToSet(calls), f \in NoFaults : RunJobNowWrites(c, f)
  \/ \E c \in BagToSet(calls), f \in NoFaults : UpdateReads(c, f)
  \/ \E c \in BagToSet(calls), f \in NoFaults : UpdateWrites(c, f)
  \/ \E c \in BagToSet(calls) : UpdateAfterWrite(c)
  \/ \E c \in BagToSet(calls), f \in NoFaults : UpdateReadsAgain(c, f)
  \/ \E c \in BagToSet(calls) : UpdateInstalls(c)
  \/ \E c \in BagToSet(calls) : Return(c)
  \/ \E e \in BagToSet(scheduler) : Room /\ Fire(e)
  \/ \E x \in BagToSet(execs) : ExecHandlerReturns(x)
  \/ \E x \in BagToSet(execs), v \in Thrown : ExecHandlerThrows(x, v)
  \/ \E x \in BagToSet(execs), f \in NoFaults : ExecWritesLastRun(x, f)
  \/ \E x \in BagToSet(execs), f \in NoFaults : ExecWritesNextRun(x, f)
  \/ \E x \in BagToSet(execs), f \in NoFaults : ExecWritesFailure(x, f)
  \/ Room /\ InitializeStart
  \/ \E c \in BagToSet(calls), f \in NoFaults : InitializeReads(c, f)
  \/ \E c \in BagToSet(calls) : InitializeLoop(c)
  \/ GraceElapsed

Spec == Init /\ [][Next]_vars

(* One call or execution at a time, on wider inputs *)
HandlersSeq == {"h1", "h2"}
BodiesSeq == { Body("interval", DefaultConfig), Body("interval", CfgLong),
               Body("cron", CfgCron) }
ThrownSeq == { ThrownError("boom"), ThrownError(""), ThrownValue("oops") }

NextSeq ==
  \/ \E n \in One, h \in HandlersSeq : Quiet /\ ScheduleJobStart(n, h)
  \/ \E c \in BagToSet(calls), f \in NoFaults : ScheduleJobReads(c, f)
  \/ \E c \in BagToSet(calls), f \in NoFaults : ScheduleJobInserts(c, f)
  \/ \E c \in BagToSet(calls), f \in NoFaults : ScheduleJobReadsAgain(c, f)
  \/ \E c \in BagToSet(calls) : ScheduleJobInstalls(c)
  \/ \E n \in One, b \in BodiesSeq, en \in Requested : Quiet /\ PostSchedules(n, b, en)
  \/ \E n \in One, b \in PutBodies(BodiesSeq) : Quiet /\ PutSchedule(n, b.config, b.en)
  \/ \E n \in One, en \in Enabledness : Quiet /\ ToggleSchedule(n, en)
  \/ \E n \in One : Quiet /\ DeleteScheduleRoute(n)
  \/ \E n \in One : Quiet /\ GetScheduleRoute(n)
  \/ Quiet /\ GetSchedulesRoute
  \/ \E c \in BagToSet(calls), f \in NoFaults : ListReads(c, f)
  \/ \E n \in One : Quiet /\ RunScheduleRoute(n)
  \/ \E c \in BagToSet(calls), f \in NoFaults : RouteChecks(c, f)
  \/ \E c \in BagToSet(calls), f \in NoFaults : PostInserts(c, f)
  \/ \E c \in BagToSet(calls) : DeleteUnschedules(c)
  \/ \E c \in BagToSet(calls), f \in NoFaults : DeleteDeletes(c, f)
  \/ \E c \in BagToSet(calls) : RunJobNowStart(c)
  \/ \E c \in BagToSet(calls) : RunJobNowReturns(c)
  \/ \E c \in BagToSet(calls), v \in ThrownSeq : RunJobNowThrows(c, v)
  \/ \E c \in BagToSet(calls), f \in NoFaults : RunJobNowWrites(c, f)
  \/ \E c \in BagToSet(calls), f \in NoFaults : UpdateReads(c, f)
  \/ \E c \in BagToSet(calls), f \in NoFaults : UpdateWrites(c, f)
  \/ \E c \in BagToSet(calls) : UpdateAfterWrite(c)
  \/ \E c \in BagToSet(calls), f \in NoFaults : UpdateReadsAgain(c, f)
  \/ \E c \in BagToSet(calls) : UpdateInstalls(c)
  \/ \E c \in BagToSet(calls) : Return(c)
  \/ \E e \in BagToSet(scheduler) : Quiet /\ Fire(e)
  \/ \E x \in BagToSet(execs) : ExecHandlerReturns(x)
  \/ \E x \in BagToSet(execs), v \in ThrownSeq : ExecHandlerThrows(x, v)
  \/ \E x \in BagToSet(execs), f \in NoFaults : ExecWritesLastRun(x, f)
  \/ \E x \in BagToSet(execs), f \in NoFaults : ExecWritesNextRun(x, f)
  \/ \E x \in BagToSet(execs), f \in NoFaults : ExecWritesFailure(x, f)
  \/ Quiet /\ InitializeStart
  \/ \E c \in BagToSet(calls), f \in NoFaults : InitializeReads(c, f)
  \/ \E c \in BagToSet(calls) : InitializeLoop(c)
  \/ GraceElapsed

SpecSeq == Init /\ [][NextSeq]_vars

(* One call or execution at a time in a failing environment: any store *)
(* query may fail, and the process may run in a zone whose clocks move *)
BodiesEnv == { Body("interval", DefaultConfig), Body("interval", CfgShort) }

InitEnv == Start(Zones)

NextEnv ==
  \/ \E n \in One, h \in Handlers : Quiet /\ ScheduleJobStart(n, h)
  \/ \E c \in BagToSet(calls), f \in Faults : ScheduleJobReads(c, f)
  \/ \E c \in BagToSet(calls), f \in Faults : ScheduleJobInserts(c, f)
  \/ \E c \in BagToSet(calls), f \in Faults : ScheduleJobReadsAgain(c, f)
  \/ \E c \in BagToSet(calls) : ScheduleJobInstalls(c)
  \/ \E n \in One, b \in BodiesEnv, en \in Enabledness : Quiet /\ PostSchedules(n, b, en)
  \/ \E n \in One, b \in PutBodies(BodiesEnv) : Quiet /\ PutSchedule(n, b.config, b.en)
  \/ \E n \in One, en \in Enabledness : Quiet /\ ToggleSchedule(n, en)
  \/ \E n \in One : Quiet /\ DeleteScheduleRoute(n)
  \/ \E n \in One : Quiet /\ GetScheduleRoute(n)
  \/ Quiet /\ GetSchedulesRoute
  \/ \E c \in BagToSet(calls), f \in Faults : ListReads(c, f)
  \/ \E n \in One : Quiet /\ RunScheduleRoute(n)
  \/ \E c \in BagToSet(calls), f \in Faults : RouteChecks(c, f)
  \/ \E c \in BagToSet(calls), f \in Faults : PostInserts(c, f)
  \/ \E c \in BagToSet(calls) : DeleteUnschedules(c)
  \/ \E c \in BagToSet(calls), f \in Faults : DeleteDeletes(c, f)
  \/ \E c \in BagToSet(calls) : RunJobNowStart(c)
  \/ \E c \in BagToSet(calls) : RunJobNowReturns(c)
  \/ \E c \in BagToSet(calls), v \in Thrown : RunJobNowThrows(c, v)
  \/ \E c \in BagToSet(calls), f \in Faults : RunJobNowWrites(c, f)
  \/ \E c \in BagToSet(calls), f \in Faults : UpdateReads(c, f)
  \/ \E c \in BagToSet(calls), f \in Faults : UpdateWrites(c, f)
  \/ \E c \in BagToSet(calls) : UpdateAfterWrite(c)
  \/ \E c \in BagToSet(calls), f \in Faults : UpdateReadsAgain(c, f)
  \/ \E c \in BagToSet(calls) : UpdateInstalls(c)
  \/ \E c \in BagToSet(calls) : Return(c)
  \/ \E e \in BagToSet(scheduler) : Quiet /\ Fire(e)
  \/ \E x \in BagToSet(execs) : ExecHandlerReturns(x)
  \/ \E x \in BagToSet(execs), v \in Thrown : ExecHandlerThrows(x, v)
  \/ \E x \in BagToSet(execs), f \in Faults : ExecWritesLastRun(x, f)
  \/ \E x \in BagToSet(execs), f \in Faults : ExecWritesNextRun(x, f)
  \/ \E x \in BagToSet(execs), f \in Faults : ExecWritesFailure(x, f)
  \/ Quiet /\ InitializeStart
  \/ \E c \in BagToSet(calls), f \in Faults : InitializeReads(c, f)
  \/ \E c \in BagToSet(calls) : InitializeLoop(c)
  \/ GraceElapsed

SpecEnv == InitEnv /\ [][NextEnv]_vars

(* Startup: the onReady hook, the plugins registering their handlers and *)
(* the executions the triggers fire, overlapping.  The event loop runs   *)
(* every continuation and every timer that is due; nothing obliges a     *)
(* plugin to register, a trigger to fire or a handler to return.         *)
NextStart ==
  \/ \E n \in One, h \in HandlersSeq : Room /\ ScheduleJobStart(n, h)
  \/ \E c \in BagToSet(calls), f \in NoFaults : ScheduleJobReads(c, f)
  \/ \E c \in BagToSet(calls), f \in NoFaults : ScheduleJobInserts(c, f)
  \/ \E c \in BagToSet(calls), f \in NoFaults : ScheduleJobReadsAgain(c, f)
  \/ \E c \in BagToSet(calls) : ScheduleJobInstalls(c)
  \/ \E c \in BagToSet(calls) : Return(c)
  \/ \E e \in BagToSet(scheduler) : Room /\ Fire(e)
  \/ \E x \in BagToSet(execs) : ExecHandlerReturns(x)
  \/ \E x \in BagToSet(execs), v \in Thrown : ExecHandlerThrows(x, v)
  \/ \E x \in BagToSet(execs), f \in NoFaults : ExecWritesLastRun(x, f)
  \/ \E x \in BagToSet(execs), f \in NoFaults : ExecWritesNextRun(x, f)
  \/ \E x \in BagToSet(execs), f \in NoFaults : ExecWritesFailure(x, f)
  \/ Room /\ InitializeStart
  \/ \E c \in BagToSet(calls), f \in NoFaults : InitializeReads(c, f)
  \/ \E c \in BagToSet(calls) : InitializeLoop(c)
  \/ GraceElapsed

FairStart ==
  /\ WF_vars(Room /\ InitializeStart)
  /\ WF_vars(\E c \in BagToSet(calls) : InitializeReads(c, FALSE))
  /\ WF_vars(\E c \in BagToSet(calls) : InitializeLoop(c))
  /\ WF_vars(GraceElapsed)
  /\ WF_vars(\E c \in BagToSet(calls) : ScheduleJobReads(c, FALSE))
  /\ WF_vars(\E c \in BagToSet(calls) : ScheduleJobInserts(c, FALSE))
  /\ WF_vars(\E c \in BagToSet(calls) : ScheduleJobReadsAgain(c, FALSE))
  /\ WF_vars(\E c \in BagToSet(calls) : ScheduleJobInstalls(c))
  /\ WF_vars(\E c \in BagToSet(calls) : Return(c))

SpecStart == Init /\ [][NextStart]_vars /\ FairStart

(* Executions overlapping updates of the schedule: the calls run one at a *)
(* time, and the executions the triggers fire run beside them            *)
Alone == Room /\ BagCardinality(calls) = 0

BodiesRun == { Body("interval", DefaultConfig), Body("interval", CfgShort) }

NextRun ==
  \/ \E n \in One, h \in Handlers : Alone /\ ScheduleJobStart(n, h)
  \/ \E c \in BagToSet(calls), f \in NoFaults : ScheduleJobReads(c, f)
  \/ \E c \in BagToSet(calls), f \in NoFaults : ScheduleJobInserts(c, f)
  \/ \E c \in BagToSet(calls), f \in NoFaults : ScheduleJobReadsAgain(c, f)
  \/ \E c \in BagToSet(calls) : ScheduleJobInstalls(c)
  \/ \E n \in One, b \in PutBodies(BodiesRun) : Alone /\ PutSchedule(n, b.config, b.en)
  \/ \E c \in BagToSet(calls), f \in NoFaults : RouteChecks(c, f)
  \/ \E c \in BagToSet(calls), f \in NoFaults : UpdateReads(c, f)
  \/ \E c \in BagToSet(calls), f \in NoFaults : UpdateWrites(c, f)
  \/ \E c \in BagToSet(calls) : UpdateAfterWrite(c)
  \/ \E c \in BagToSet(calls), f \in NoFaults : UpdateReadsAgain(c, f)
  \/ \E c \in BagToSet(calls) : UpdateInstalls(c)
  \/ \E c \in BagToSet(calls) : Return(c)
  \/ \E e \in BagToSet(scheduler) : Room /\ Fire(e)
  \/ \E x \in BagToSet(execs) : ExecHandlerReturns(x)
  \/ \E x \in BagToSet(execs), v \in Thrown : ExecHandlerThrows(x, v)
  \/ \E x \in BagToSet(execs), f \in NoFaults : ExecWritesLastRun(x, f)
  \/ \E x \in BagToSet(execs), f \in NoFaults : ExecWritesNextRun(x, f)
  \/ \E x \in BagToSet(execs), f \in NoFaults : ExecWritesFailure(x, f)
  \/ Alone /\ InitializeStart
  \/ \E c \in BagToSet(calls), f \in NoFaults : InitializeReads(c, f)
  \/ \E c \in BagToSet(calls) : InitializeLoop(c)
  \/ GraceElapsed

SpecRun == Init /\ [][NextRun]_vars

(* Two jobs at startup: one of the rows may hold an interval the substrate *)
(* refuses (30 days), as POST /schedules stores it                         *)
RowsTwo == { << >>, << DefaultRow(0) >>, << PostRow("interval", CfgLong, TRUE) >> }

InitTwo ==
  /\ zone = "UTC"
  /\ store \in Tables(Names, RowsTwo)
  /\ logLines = {}
  /\ ServicesIdle
  /\ jobs = [n \in Names |-> NoEntry]
  /\ scheduler = EmptyBag
  /\ calls = EmptyBag
  /\ execs = EmptyBag
  /\ now = 0
  /\ isInitializing = TRUE
  /\ expectedHandlerCount = 0
  /\ hasLoggedReady = FALSE
  /\ initStarted = FALSE
  /\ graceTimer = FALSE

NextTwo ==
  \/ \E n \in Names, h \in Handlers : Room /\ ScheduleJobStart(n, h)
  \/ \E c \in BagToSet(calls), f \in NoFaults : ScheduleJobReads(c, f)
  \/ \E c \in BagToSet(calls), f \in NoFaults : ScheduleJobInserts(c, f)
  \/ \E c \in BagToSet(calls), f \in NoFaults : ScheduleJobReadsAgain(c, f)
  \/ \E c \in BagToSet(calls) : ScheduleJobInstalls(c)
  \/ \E c \in BagToSet(calls) : Return(c)
  \/ \E e \in BagToSet(scheduler) : Room /\ Fire(e)
  \/ \E x \in BagToSet(execs) : ExecHandlerReturns(x)
  \/ \E x \in BagToSet(execs), v \in Thrown : ExecHandlerThrows(x, v)
  \/ \E x \in BagToSet(execs), f \in NoFaults : ExecWritesLastRun(x, f)
  \/ \E x \in BagToSet(execs), f \in NoFaults : ExecWritesNextRun(x, f)
  \/ \E x \in BagToSet(execs), f \in NoFaults : ExecWritesFailure(x, f)
  \/ Room /\ InitializeStart
  \/ \E c \in BagToSet(calls), f \in NoFaults : InitializeReads(c, f)
  \/ \E c \in BagToSet(calls) : InitializeLoop(c)
  \/ GraceElapsed

SpecTwo == InitTwo /\ [][NextTwo]_vars

(* Plugins registering handlers beside updates of the schedule: calls *)
(* overlap, the triggers do not fire                                  *)
BodiesSwap == { Body("interval", CfgLong) }

NextSwap ==
  \/ \E n \in One, h \in HandlersSeq : Room /\ ScheduleJobStart(n, h)
  \/ \E c \in BagToSet(calls), f \in NoFaults : ScheduleJobReads(c, f)
  \/ \E c \in BagToSet(calls), f \in NoFaults : ScheduleJobInserts(c, f)
  \/ \E c \in BagToSet(calls), f \in NoFaults : ScheduleJobReadsAgain(c, f)
  \/ \E c \in BagToSet(calls) : ScheduleJobInstalls(c)
  \/ \E n \in One, b \in PutBodies(BodiesSwap) : Room /\ PutSchedule(n, b.config, b.en)
  \/ \E c \in BagToSet(calls), f \in NoFaults : RouteChecks(c, f)
  \/ \E c \in BagToSet(calls), f \in NoFaults : UpdateReads(c, f)
  \/ \E c \in BagToSet(calls), f \in NoFaults : UpdateWrites(c, f)
  \/ \E c \in BagToSet(calls) : UpdateAfterWrite(c)
  \/ \E c \in BagToSet(calls), f \in NoFaults : UpdateReadsAgain(c, f)
  \/ \E c \in BagToSet(calls) : UpdateInstalls(c)
  \/ \E c \in BagToSet(calls) : Return(c)
  \/ Room /\ InitializeStart
  \/ \E c \in BagToSet(calls), f \in NoFaults : InitializeReads(c, f)
  \/ \E c \in BagToSet(calls) : InitializeLoop(c)
  \/ GraceElapsed

SpecSwap == Init /\ [][NextSwap]_vars

(* ------------------------------------------------------------------ *)
(* ApiKeyService (src/unnamed/part_020)                               *)
(* createApiKey and revokeApiKey await the store, then refreshCache;  *)
(* refreshCache awaits getActiveApiKeys and swaps the cache in its    *)
(* continuation.                                                      *)
(* ------------------------------------------------------------------ *)
(* ApiKeyService calls in flight together *)
MaxKeyCalls == 2

IdleKeyCall ==
  [op |-> "idle", pc |-> "idle", id |-> 0, snap |-> {}, failed |-> FALSE, result |-> "none"]

KeyDone(c, result) ==
  [IdleKeyCall EXCEPT !.op = c.op, !.id = c.id, !.pc = "done", !.result = result]

KeyRoom == BagCardinality(keyCalls) < MaxKeyCalls

CreateApiKeyStart ==
  /\ KeyRoom
  /\ keyCalls' = Put(keyCalls, [IdleKeyCall EXCEPT !.op = "create", !.pc = "k_insert"])
  /\ UNCHANGED <<apiKeys, apiKeyCache>>

(* db.createApiKey: a row with a fresh key, active; a failure is rethrown. *)
(* The continuation calls refreshCache, which issues its query.            *)
CreateApiKeyInserts(c, k, f) ==
  /\ c.pc = "k_insert"
  /\ apiKeys[k] = "absent"
  /\ apiKeys' = IF f THEN apiKeys ELSE [apiKeys EXCEPT ![k] = "active"]
  /\ keyCalls' = Replace(keyCalls, c,
                   IF f THEN KeyDone(c, "threw")
                        ELSE [c EXCEPT !.pc = "k_read", !.id = k])
  /\ UNCHANGED apiKeyCache

RevokeApiKeyStart(id) ==
  /\ KeyRoom
  /\ keyCalls' = Put(keyCalls, [IdleKeyCall EXCEPT !.op = "revoke", !.pc = "k_revoke",
                                                   !.id = id])
  /\ UNCHANGED <<apiKeys, apiKeyCache>>

(* db.revokeApiKey; with a row updated the continuation calls refreshCache, *)
(* with none it returns false; a failure is rethrown                        *)
RevokeApiKeyWrites(c, f) ==
  LET out == revokeApiKeyRow(apiKeys, c.id)
  IN /\ c.pc = "k_revoke"
     /\ apiKeys' = IF f THEN apiKeys ELSE out.table
     /\ keyCalls' = Replace(keyCalls, c,
                      IF f THEN KeyDone(c, "threw")
                      ELSE IF out.result THEN [c EXCEPT !.pc = "k_read"]
                      ELSE KeyDone(c, "false"))
     /\ UNCHANGED apiKeyCache

(* refreshCache: the store answers getActiveApiKeys, or the query fails *)
RefreshCacheReads(c, f) ==
  /\ c.pc = "k_read"
  /\ keyCalls' = Replace(keyCalls, c,
                   [c EXCEPT !.pc = "k_swap", !.failed = f,
                             !.snap = IF f THEN {} ELSE getActiveApiKeys(apiKeys)])
  /\ UNCHANGED <<apiKeys, apiKeyCache>>

(* refreshCache: the continuation swaps the cache, or keeps it when the   *)
(* query failed; createApiKey / revokeApiKey then return                  *)
RefreshCacheSwaps(c) ==
  /\ c.pc = "k_swap"
  /\ apiKeyCache' = IF c.failed THEN apiKeyCache ELSE c.snap
  /\ keyCalls' = Replace(keyCalls, c, KeyDone(c, IF c.op = "revoke" THEN "true" ELSE "key"))
  /\ UNCHANGED apiKeys

(* the caller takes the result *)
KeyReturn(c) ==
  /\ c.pc = "done"
  /\ keyCalls' = Drop(keyCalls, c)
  /\ UNCHANGED <<apiKeys, apiKeyCache>>

(* the scheduler's state, which the other services leave alone *)
schedulerVars ==
  <<store, jobs, scheduler, calls, execs, now, zone, isInitializing,
    expectedHandlerCount, hasLoggedReady, initStarted, graceTimer, logLines>>

(* the scheduler after construction, its table empty *)
SchedulerIdle ==
  /\ zone = "UTC"
  /\ store = [n \in Names |-> << >>]
  /\ logLines = {}
  /\ jobs = [n \in Names |-> NoEntry]
  /\ scheduler = EmptyBag
  /\ calls = EmptyBag
  /\ execs = EmptyBag
  /\ now = 0
  /\ isInitializing = TRUE
  /\ expectedHandlerCount = 0
  /\ hasLoggedReady = FALSE
  /\ initStarted = FALSE
  /\ graceTimer = FALSE

(* ApiKeyService after initialize(): the cache holds the active keys of *)
(* the table                                                            *)
InitKeys ==
  /\ SchedulerIdle
  /\ apiKeys \in [KeyIds -> {"absent", "active"}]
  /\ apiKeyCache = getActiveApiKeys(apiKeys)
  /\ keyCalls = EmptyBag
  /\ activeConnections = {}
  /\ watchedFiles = NoWatch
  /\ intervals = {}
  /\ starting = EmptyBag

NextKeys ==
  \/ CreateApiKeyStart /\ UNCHANGED <<schedulerVars, logVars>>
  \/ \E c \in BagToSet(keyCalls), k \in KeyIds, f \in Faults :
       CreateApiKeyInserts(c, k, f) /\ UNCHANGED <<schedulerVars, logVars>>
  \/ \E id \in KeyIds : RevokeApiKeyStart(id) /\ UNCHANGED <<schedulerVars, logVars>>
  \/ \E c \in BagToSet(keyCalls), f \in Faults :
       RevokeApiKeyWrites(c, f) /\ UNCHANGED <<schedulerVars, logVars>>
  \/ \E c \in BagToSet(keyCalls), f \in Faults :
       RefreshCacheReads(c, f) /\ UNCHANGED <<schedulerVars, logVars>>
  \/ \E c \in BagToSet(keyCalls) : RefreshCacheSwaps(c) /\ UNCHANGED <<schedulerVars, logVars>>
  \/ \E c \in BagToSet(keyCalls) : KeyReturn(c) /\ UNCHANGED <<schedulerVars, logVars>>

SpecKeys == InitKeys /\ [][NextKeys]_vars

(* ------------------------------------------------------------------ *)
(* LogStreamingService (scheduler.service.ts 751-1056)                *)
(* ------------------------------------------------------------------ *)
(* what the awaited stat of the log file gives *)
StatOutcomes == {"ok", "ENOENT", "error"}

(* the handle setInterval returns: one no running timer has *)
NewTimer(running) ==
  CHOOSE t \in (1..MaxTimers) \ running : \A u \in (1..MaxTimers) \ running : t <= u

(* timers and suspended starts stay within MaxTimers *)
TimerRoom == Cardinality(intervals) + BagCardinality(starting) < MaxTimers

(* startFileWatching up to its await: nothing with an entry present *)
StartsWatching(connections) == Cardinality(connections) = 1 /\ ~watchedFiles.present

(* addConnection(id, options); the first connection calls startFileWatching, *)
(* which is suspended at the stat                                            *)
AddConnection(id) ==
  LET next == activeConnections \cup {id}
  IN /\ StartsWatching(next) => TimerRoom
     /\ activeConnections' = next
     /\ starting' = IF StartsWatching(next) THEN Put(starting, "stat") ELSE starting
     /\ UNCHANGED <<watchedFiles, intervals>>

(* startFileWatching after the stat: an unexpected error aborts; otherwise *)
(* the entry is set, the timer started and its handle kept in the entry    *)
StatReturns(outcome) ==
  LET t == NewTimer(intervals)
  IN /\ BagIn("stat", starting)
     /\ starting' = Drop(starting, "stat")
     /\ IF outcome = "error"
        THEN UNCHANGED <<watchedFiles, intervals>>
        ELSE /\ watchedFiles' = Watch(t)
             /\ intervals' = intervals \cup {t}
     /\ UNCHANGED activeConnections

(* stopFileWatching: clears the timer the entry holds and deletes the entry *)
stopFileWatching(entry, running) ==
  IF entry.present
  THEN [entry |-> NoWatch, running |-> running \ {entry.interval}]
  ELSE [entry |-> entry, running |-> running]

(* removeConnection(id); with no connection left it calls stopFileWatching *)
RemoveConnection(id) ==
  LET next == activeConnections \ {id}
      out == stopFileWatching(watchedFiles, intervals)
  IN /\ activeConnections' = next
     /\ watchedFiles' = IF next = {} THEN out.entry ELSE watchedFiles
     /\ intervals' = IF next = {} THEN out.running ELSE intervals
     /\ UNCHANGED starting

InitLog == SchedulerIdle /\ ServicesIdle

NextLog ==
  \/ \E id \in ConnectionIds : AddConnection(id) /\ UNCHANGED <<schedulerVars, keyVars>>
  \/ \E o \in StatOutcomes : StatReturns(o) /\ UNCHANGED <<schedulerVars, keyVars>>
  \/ \E id \in ConnectionIds : RemoveConnection(id) /\ UNCHANGED <<schedulerVars, keyVars>>

SpecLog == InitLog /\ [][NextLog]_vars
(* ------------------------------------------------------------------ *)
(* Properties                                                         *)
(* ------------------------------------------------------------------ *)
(* the calls that have finished and still hold their result *)
Finished(op) == { c \in BagToSet(calls) : c.op = op /\ c.pc = "done" }

(* an administrative operation that touches the name `n` is in progress *)
InProgress(n) ==
  \E c \in BagToSet(calls) : c.pc # "done" /\ (c.op = "init" \/ c.name = n)

(* the step is one the call `c` takes *)
Takes(c) == CopiesIn(c, calls') < CopiesIn(c, calls)

(* the name has a row, and every row of it says `enabled` *)
RowEnabled(n) == Len(store[n]) > 0 /\ \A i \in 1..Len(store[n]) : store[n][i].enabled

RowDisabled(n) == Len(store[n]) > 0 /\ \A i \in 1..Len(store[n]) : ~store[n][i].enabled

(* handler invocations of the name in progress, fired or manual *)
Running(n) ==
  SumCopies({ c \in BagToSet(calls) : c.name = n /\ c.pc = "run_handler" }, calls)
    + SumCopies({ x \in BagToSet(execs) : x.job.name = n /\ x.pc = "handler" }, execs)

(* C1: in every state the substrate holds at most one registered job, and so *)
(* at most one live trigger, for every name: an installation never leaves    *)
(* the trigger it replaces in place.                                         *)
C1_AtMostOneTrigger ==
  \A n \in Names :
    /\ TriggerCount(scheduler, n) <= 1
    /\ SumCopies({ e \in BagToSet(scheduler) : e.job.name = n }, scheduler) <= 1

(* an update has rebuilt the trigger of a job while an execution fired by *)
(* the replaced trigger is still running                                  *)
C1_Witness ==
  \E c \in BagToSet(calls) :
    /\ c.pc = "done" /\ c.tag = "rebuild" /\ c.result = "200"
    /\ TriggerCount(scheduler, c.name) = 1
    /\ \E x \in BagToSet(execs) : x.job.name = c.name /\ ~x.attached

(* C2: at most one invocation of the handler of a name is in progress at any *)
(* time, counting the executions the triggers fire and those runJobNow makes *)
C2_OneInvocationAtATime == \A n \in Names : Running(n) <= 1

(* C3: when no administrative operation on a name is in progress, a row with *)
(* enabled = false has no live trigger                                       *)
C3_DisabledHasNoTrigger ==
  \A n \in Names : (~InProgress(n) /\ RowDisabled(n)) => TriggerCount(scheduler, n) = 0

(* C4: a scheduleJob call that found no row and inserted one returns true and *)
(* leaves exactly one row {interval, {hours: 24}, enabled, last_run null,     *)
(* next_run pending and estimated}, its handler in the registry and exactly   *)
(* one live trigger                                                           *)
C4_DefaultScheduleCreated ==
  \A c \in Finished("scheduleJob") :
    c.tag = "created" =>
      /\ c.result = "true"
      /\ Len(store[c.name]) = 1
      /\ store[c.name][1].type = "interval"
      /\ store[c.name][1].config = IntervalCfg(0, 24, 0, 0)
      /\ store[c.name][1].enabled
      /\ store[c.name][1].last_run = NullRun
      /\ store[c.name][1].next_run.status = "pending"
      /\ store[c.name][1].next_run.estimated
      /\ store[c.name][1].next_run.time = now + 24 * 3600
      /\ jobs[c.name].present
      /\ jobs[c.name].handler = c.handler
      /\ TriggerCount(scheduler, c.name) = 1

(* scheduleJob has created the default schedule of a name and returned true *)
C4_Witness ==
  \E c \in Finished("scheduleJob") :
    /\ c.tag = "created" /\ c.result = "true" /\ c.handler = "h2"
    /\ Len(store[c.name]) = 1
    /\ TriggerCount(scheduler, c.name) = 1

(* C5: the table holds at most one row for every name, in every state *)
C5_OneRowPerName == \A n \in Names : Len(store[n]) <= 1

(* two calls found no row of a name; the insert of the second was refused *)
C5_Witness ==
  \E c \in BagToSet(calls) :
    c.pc = "done" /\ c.tag = "insertfailed" /\ Len(store[c.name]) = 1

(* C6: once DELETE has answered success, and for as long as the name has no *)
(* row, no trigger of the name is installed                                 *)
C6_DeletedHasNoTrigger ==
  \A c \in Finished("delete") :
    (c.result = "200" /\ Len(store[c.name]) = 0) =>
      SumCopies({ e \in BagToSet(scheduler) : e.job.name = c.name }, scheduler) = 0

(* C7, as the specification words it: after a successful DELETE of a name *)
(* whose handler was registered, the registry still holds the handler     *)
C7_HandlerSurvivesDelete ==
  \A c \in Finished("delete") :
    (c.result = "200" /\ c.tag = "unscheduled") => jobs[c.name].present

(* C7, as the code has it: a successful DELETE leaves no row, no registry    *)
(* entry and no trigger of the name, and a POST that creates the row anew    *)
(* finds no entry and installs no trigger: only another scheduleJob call     *)
(* makes the job active again                                                *)
C7_DeleteDropsHandler ==
  /\ \A c \in Finished("delete") :
       c.result = "200" =>
         /\ Len(store[c.name]) = 0
         /\ ~jobs[c.name].present
         /\ TriggerCount(scheduler, c.name) = 0
  /\ \A c \in Finished("post") :
       c.tag = "created" =>
         /\ ~jobs[c.name].present
         /\ TriggerCount(scheduler, c.name) = 0

(* DELETE has unscheduled a job whose handler was registered *)
C7_Witness ==
  \E c \in Finished("delete") :
    /\ c.result = "200" /\ c.tag = "unscheduled"
    /\ ~jobs[c.name].present
    /\ Len(store[c.name]) = 0

(* the type and the config of the row are ones the substrate refuses *)
Refused(row, name, handler) ==
  \/ CreateJobThrows(row.type, row.config)
  \/ StartThrows([id |-> name, name |-> name, type |-> row.type, config |-> row.config,
                  handler |-> handler])

(* C8: a toggle to false that finds a registered handler and an enabled row *)
(* removes the trigger and keeps the row, now disabled, and the handler; a   *)
(* toggle to true installs exactly one trigger, built from the type and the  *)
(* config the row holds then and running the registered handler, and fails   *)
(* only on a type and config the substrate refuses; no step of a toggle      *)
(* changes the handler of a name                                             *)
C8_ToggleOffOn ==
  /\ [](\A c \in Finished("toggle") :
          /\ c.tag = "disable" =>
               /\ c.result = "200"
               /\ TriggerCount(scheduler, c.name) = 0
               /\ Len(store[c.name]) = 1
               /\ ~store[c.name][1].enabled
               /\ jobs[c.name].present
               /\ jobs[c.name].job = NoJob
          /\ (c.tag = "enable" /\ c.result = "200") =>
               /\ TriggerCount(scheduler, c.name) = 1
               /\ Len(store[c.name]) = 1
               /\ store[c.name][1].enabled
               /\ jobs[c.name].present
               /\ \A e \in Triggers(scheduler, c.name) :
                    /\ e.job.type = store[c.name][1].type
                    /\ e.job.config = store[c.name][1].config
                    /\ e.job.handler = jobs[c.name].handler
                    /\ jobs[c.name].job = e.job
          /\ (c.tag = "enable" /\ c.result = "500") =>
               /\ Len(store[c.name]) = 1
               /\ Refused(store[c.name][1], c.name, jobs[c.name].handler))
  /\ [][(\E c \in BagToSet(calls) : c.op = "toggle" /\ c.pc # "done" /\ Takes(c)) =>
          \A n \in Names : /\ jobs'[n].present = jobs[n].present
                           /\ jobs'[n].handler = jobs[n].handler]_vars

(* a toggle to true has installed the trigger of a cron schedule *)
C8_Witness ==
  \E c \in Finished("toggle") :
    /\ c.tag = "enable" /\ c.result = "200"
    /\ TriggerCount(scheduler, c.name) = 1
    /\ \E e \in Triggers(scheduler, c.name) : e.job.type = "cron" /\ e.job.config = CfgCron
    /\ store[c.name][1].last_run # NullRun

(* C9: a POST that has created an enabled row for a name whose handler is   *)
(* registered leaves a live trigger of the name; and whenever no            *)
(* administrative operation on a name is in progress, a name with a         *)
(* registered handler and an enabled row has a live trigger                 *)
C9_HandlerAndEnabledRowAreActive ==
  /\ \A c \in Finished("post") :
       (c.tag = "created" /\ jobs[c.name].present /\ RowEnabled(c.name)) =>
         TriggerCount(scheduler, c.name) >= 1
  /\ \A n \in Names :
       (~InProgress(n) /\ jobs[n].present /\ RowEnabled(n)) =>
         TriggerCount(scheduler, n) >= 1

(* C10: no step of a manual run changes the registry, the substrate or any  *)
(* field of a row but last_run; its write sets last_run to the outcome:     *)
(* completed when the handler returned, failed with the text of the thrown  *)
(* value when it threw                                                      *)
C10_ManualRunFrame ==
  [][\A c \in BagToSet(calls) :
       (c.op = "run" /\ c.pc \in {"run_start", "run_handler", "run_write"} /\ Takes(c)) =>
         /\ jobs' = jobs
         /\ scheduler' = scheduler
         /\ \A n \in Names :
              /\ Len(store'[n]) = Len(store[n])
              /\ \A i \in 1..Len(store[n]) :
                   store'[n][i] = [store[n][i] EXCEPT !.last_run = store'[n][i].last_run]
         /\ c.pc # "run_write" => store' = store
         /\ c.pc = "run_write" =>
              \A i \in 1..Len(store[c.name]) :
                store'[c.name][i].last_run =
                  IF c.thrown = NotThrown
                  THEN [time |-> now, status |-> "completed", error |-> "",
                        estimated |-> FALSE]
                  ELSE [time |-> now, status |-> "failed",
                        error |-> IF c.thrown.kind = "error" THEN c.thrown.message
                                                             ELSE c.thrown.text,
                        estimated |-> FALSE]]_vars

(* a manual run of an active job has failed and recorded the failure *)
C10_Witness ==
  \E c \in Finished("run") :
    /\ c.result = "500" /\ c.tag = "failed"
    /\ Len(store[c.name]) = 1
    /\ store[c.name][1].last_run.status = "failed"
    /\ store[c.name][1].last_run.error = "boom"
    /\ store[c.name][1].next_run.status = "pending"
    /\ jobs[c.name].present
    /\ TriggerCount(scheduler, c.name) = 1

(* the step is one the execution `x` takes *)
Runs(x) == CopiesIn(x, execs') < CopiesIn(x, execs)

(* C11: the write an execution makes after its handler threw sets last_run  *)
(* to failed with a non-empty error text, whatever was thrown, and leaves   *)
(* next_run as it was                                                       *)
C11_FailureRecorded ==
  [][\A x \in BagToSet(execs) :
       (x.pc = "w_fail" /\ Runs(x)) =>
         \A i \in 1..Len(store[x.job.name]) :
           /\ Len(store'[x.job.name]) = Len(store[x.job.name])
           /\ store'[x.job.name][i].last_run.status = "failed"
           /\ store'[x.job.name][i].last_run.error # ""
           /\ store'[x.job.name][i].next_run = store[x.job.name][i].next_run]_vars

(* C12: an updateJobSchedule whose store write failed returns false: the *)
(* route that made the call answers 500                                  *)
C12_FailedWriteIsReported ==
  \A c \in BagToSet(calls) :
    (c.pc = "done" /\ c.op \in {"post", "put", "toggle"} /\ c.fault = "write") =>
      c.result = "500"

(* C13: an operation that has created a row, or given it a new config, *)
(* leaves the row with a next_run that is pending and estimated        *)
C13_NextRunPersisted ==
  \A c \in BagToSet(calls) :
    (/\ c.pc = "done"
     /\ \/ c.op = "scheduleJob" /\ c.tag = "created"
        \/ c.op = "post" /\ c.tag = "created"
        \/ c.op = "put" /\ c.result = "200") =>
      \A i \in 1..Len(store[c.name]) :
        /\ store[c.name][i].next_run.status = "pending"
        /\ store[c.name][i].next_run.estimated

(* the routes that answer 404 for a name without a row *)
NamedRoutes == {"get", "put", "delete", "run", "toggle"}

(* C14: the existence check of GET, PUT, DELETE, run and toggle on a name *)
(* that has no row ends the call with 404 and changes neither the store,  *)
(* the registry, the substrate nor the executions in progress             *)
C14_NotFound ==
  [][\A c \in BagToSet(calls) :
       (/\ c.op \in NamedRoutes /\ c.pc = "r_get" /\ Takes(c)
        /\ Len(store[c.name]) = 0) =>
         /\ \E d \in BagToSet(calls') :
              /\ d.op = c.op /\ d.name = c.name /\ d.pc = "done" /\ d.result = "404"
              /\ CopiesIn(d, calls') > CopiesIn(d, calls)
         /\ store' = store
         /\ jobs' = jobs
         /\ scheduler' = scheduler
         /\ execs' = execs]_vars

(* a manual run of a name whose handler is registered, but which has no row, *)
(* was answered 404                                                          *)
C14_Witness ==
  \E c \in Finished("run") :
    /\ c.result = "404"
    /\ jobs[c.name].present
    /\ Len(store[c.name]) = 0

(* C15: a route whose store read failed answers 500: GET /schedules does, *)
(* and so does a route on a name that has a row                          *)
C15_FailedReadIs500 ==
  \A c \in BagToSet(calls) :
    (/\ c.pc = "done" /\ c.fault = "read"
     /\ \/ c.op = "list"
        \/ c.op \in NamedRoutes /\ Len(store[c.name]) > 0) =>
      c.result = "500"

(* C16: after a PUT with an interval config the next_run of the row is the *)
(* instant of the update plus the seconds of the config                    *)
C16_NextRunIsNowPlusUnits ==
  \A c \in Finished("put") :
    (c.result = "200" /\ c.fault = "") =>
      \A i \in 1..Len(store[c.name]) :
        (store[c.name][i].type = "interval" /\ ToSecs(store[c.name][i].config) > 0) =>
          store[c.name][i].next_run.time = now + ToSecs(store[c.name][i].config)

(* the bulk load has run to its end *)
BulkLoadDone == initStarted /\ \A c \in BagToSet(calls) : c.op # "init"

(* C17: once the bulk load and the scheduleJob calls of a name have *)
(* finished, a name with an enabled row and a registered handler has *)
(* exactly one live trigger, and the trigger runs the registered     *)
(* handler                                                           *)
C17_StartupInstalls ==
  \A n \in Names :
    (BulkLoadDone /\ ~InProgress(n) /\ jobs[n].present /\ RowEnabled(n)) =>
      /\ TriggerCount(scheduler, n) = 1
      /\ \A e \in Triggers(scheduler, n) :
           /\ e.job.handler = jobs[n].handler
           /\ jobs[n].job = e.job

(* the handler was registered between the read of the bulk load and its *)
(* loop: the loop installed the trigger and scheduleJob was refused     *)
C17_Witness ==
  \E c \in Finished("scheduleJob") :
    /\ c.result = "false"
    /\ BulkLoadDone
    /\ RowEnabled(c.name)
    /\ TriggerCount(scheduler, c.name) = 1

(* C18: when nothing is in flight, the next_run of a row is the one its *)
(* own type and config give                                             *)
C18_NextRunFromCurrentConfig ==
  InFlight = 0 =>
    \A n \in Names : \A i \in 1..Len(store[n]) :
      store[n][i].next_run.status = "pending" =>
        store[n][i].next_run.time = NextRunTime(now, store[n][i].type, store[n][i].config)

(* what a read of the name would give now *)
Current(n) == IF Len(store[n]) = 0 THEN {NoRow} ELSE { Read(store[n][i]) : i \in 1..Len(store[n]) }

(* C19: between the read on which scheduleJob bases its decision and the *)
(* mutation it makes, no other operation has written the row: a call    *)
(* about to install a trigger holds the schedule the store holds        *)
C19_DecisionOnCurrentRow ==
  \A c \in BagToSet(calls) :
    (c.op = "scheduleJob" /\ c.pc = "sj_install" /\ c.sched.enabled) =>
      c.sched \in Current(c.name)

(* the handlers registered *)
RegisteredHandlers == Cardinality({ n \in Names : jobs[n].present })

(* C20: once the bulk load has finished and the number of registered *)
(* handlers has reached the number of enabled schedules it loaded,   *)
(* the readiness signal eventually fires                             *)
C20_ReadinessFires ==
  (BulkLoadDone /\ RegisteredHandlers >= expectedHandlerCount) ~> hasLoggedReady

(* the line the loop of the bulk load logs for a schedule without a handler *)
Warned(n) == [level |-> "warn", name |-> n] \in logLines

(* the grace window is over and a persisted schedule has no handler *)
Gap(n) ==
  initStarted /\ ~graceTimer /\ ~isInitializing /\ Len(store[n]) > 0 /\ ~jobs[n].present

(* C21: when the grace window has elapsed and a persisted schedule still *)
(* has no registered handler, the warning "no handler registered" for    *)
(* that schedule is eventually logged                                    *)
C21_GapIsWarned == \A n \in Names : Gap(n) ~> Warned(n)

(* the step in which the loop of the bulk load runs for the call c *)
LoopRuns(c) == c.op = "init" /\ c.pc = "i_loop" /\ Takes(c)

(* the loaded schedule of n is enabled, has a handler and can be built *)
Installable(c, n) ==
  /\ jobs[n].present
  /\ Len(c.snap[n]) = 1
  /\ c.snap[n][1].enabled
  /\ ~CreateJobThrows(c.snap[n][1].type, c.snap[n][1].config)

(* the step in which the handler of the execution x throws, and the step in *)
(* which the failed execution ends                                          *)
Throws(x) ==
  /\ x.pc = "handler"
  /\ \E v \in Thrown :
       execs' = Replace(execs, x, [x EXCEPT !.pc = "w_fail", !.thrown = v,
                                            !.run = Failed(now, ErrorText(v))])

EndsFailed(x) == x.pc = "w_fail" /\ execs' = Drop(execs, x)

(* everything of the names other than n is as it was *)
OthersUnchanged(n) ==
  \A m \in Names \ {n} :
    /\ store'[m] = store[m]
    /\ jobs'[m] = jobs[m]
    /\ Triggers(scheduler', m) = Triggers(scheduler, m)
    /\ TriggerCount(scheduler', m) = TriggerCount(scheduler, m)

(* C22: the loop of the bulk load installs the trigger of every enabled   *)
(* schedule with a handler that can be built, whatever happened to the    *)
(* schedules before it; a handler that throws in a trigger-fired          *)
(* execution leaves its own trigger installed, free to fire again once    *)
(* the failed execution has ended, and leaves the registry and the rows   *)
(* and triggers of the other names as they were                           *)
C22_FailuresAreConfined ==
  [][/\ \A c \in BagToSet(calls) :
          LoopRuns(c) =>
            \A n \in Names :
              Installable(c, n) =>
                TriggerCount(scheduler', n) = 1 /\ jobs'[n].job # NoJob
     /\ \A x \in BagToSet(execs) :
          (Throws(x) \/ EndsFailed(x)) =>
            /\ jobs' = jobs
            /\ OthersUnchanged(x.job.name)
            /\ TriggerCount(scheduler', x.job.name) = TriggerCount(scheduler, x.job.name)
            /\ (EndsFailed(x) /\ x.attached) =>
                 \E e \in BagToSet(scheduler') :
                   e.job = x.job /\ e.started /\ ~e.executing]_vars

(* the bulk load has met a schedule it cannot build ('a') and installed  *)
(* the next one ('b'), whose handler has since thrown in an execution    *)
C22_Witness ==
  /\ \E c \in BagToSet(calls) : c.op = "init" /\ c.pc = "done"
  /\ jobs["a"].present /\ jobs["b"].present
  /\ store["a"] = << PostRow("interval", CfgLong, TRUE) >>
  /\ TriggerCount(scheduler, "a") = 0
  /\ TriggerCount(scheduler, "b") = 1
  /\ Len(store["b"]) = 1 /\ store["b"][1].last_run.status = "failed"
  /\ \A e \in Triggers(scheduler, "b") : ~e.executing

(* C23: a run whose bookkeeping finds no row of its name creates none:   *)
(* the write of last_run or next_run, of a manual run or of an execution *)
(* a trigger fired, leaves the name without a row; the write of a manual *)
(* run reports that nothing was updated, and the run is answered as      *)
(* successful when the handler did not throw                             *)
C23_BookkeepingCreatesNoRow ==
  [][/\ \A c \in BagToSet(calls) :
          (c.pc = "run_write" /\ Takes(c) /\ Len(store[c.name]) = 0) =>
            /\ store'[c.name] = << >>
            /\ \E d \in BagToSet(calls') :
                 /\ d.op = "run" /\ d.name = c.name /\ d.pc = "done" /\ ~d.updated
                 /\ d.result = (IF c.thrown = NotThrown THEN "200" ELSE "500")
                 /\ CopiesIn(d, calls') > CopiesIn(d, calls)
     /\ \A x \in BagToSet(execs) :
          (/\ x.pc \in {"w_last", "w_next", "w_fail"} /\ Runs(x)
           /\ Len(store[x.job.name]) = 0) =>
            store'[x.job.name] = << >>]_vars

(* a manual run whose handler returned wrote its last_run to no row, and *)
(* an execution that outlived its row is about to write its next_run     *)
C23_Witness ==
  /\ \E c \in Finished("run") :
       c.result = "200" /\ ~c.updated /\ Len(store[c.name]) = 0
  /\ \E x \in BagToSet(execs) : x.pc = "w_next" /\ Len(store[x.job.name]) = 0

(* C24: the write of updateJobSchedule(name, null, enabled) for a name  *)
(* with a row and no registered handler changes the enabled flag of the *)
(* row and nothing else of it                                           *)
C24_ToggleWritesOnlyEnabled ==
  [][\A c \in BagToSet(calls) :
       (/\ c.op \in {"put", "toggle"} /\ c.pc = "u_update" /\ Takes(c)
        /\ c.cfg = NoCfg /\ c.en # "undef"
        /\ ~jobs[c.name].present) =>
         /\ Len(store'[c.name]) = Len(store[c.name])
         /\ \A i \in 1..Len(store[c.name]) :
              store'[c.name][i] = [store[c.name][i] EXCEPT !.enabled = (c.en = "true")]]_vars

(* C25: the config of every row is of the type of the row *)
C25_ConfigMatchesType ==
  \A n \in Names : \A i \in 1..Len(store[n]) : store[n][i].config.kind = store[n][i].type

(* C28: the write of an update whose request did not give enabled leaves *)
(* the enabled flag of the row as it was                                 *)
C28_ConfigOnlyKeepsEnabled ==
  [][\A c \in BagToSet(calls) :
       (/\ c.op \in {"put", "post"} /\ c.pc = "u_update" /\ Takes(c)
        /\ c.asked = "undef") =>
         /\ Len(store'[c.name]) = Len(store[c.name])
         /\ \A i \in 1..Len(store[c.name]) :
              store'[c.name][i].enabled = store[c.name][i].enabled]_vars

(* the substrate holds a job under the id n *)
InSubstrate(n) == \E e \in BagToSet(scheduler) : e.job.id = n

(* C26: with nothing in progress, the registry entry of a name records a *)
(* job exactly when the substrate holds a job under the name             *)
C26_RegistryMatchesSubstrate ==
  Quiet => \A n \in Names : (jobs[n].present /\ jobs[n].job # NoJob) <=> InSubstrate(n)

(* C27: with nothing in progress, every live trigger of a name invokes the *)
(* handler the registry records for the name                               *)
C27_TriggerRunsRegisteredHandler ==
  Quiet => \A n \in Names : \A e \in Triggers(scheduler, n) :
             jobs[n].present /\ e.job.handler = jobs[n].handler

(* C29: while the caller of a revokeApiKey(id) that returned true holds *)
(* the result, verifyAndGetUser gives null for the key                  *)
C29_RevokedKeyIsRefused ==
  \A c \in BagToSet(keyCalls) :
    (c.op = "revoke" /\ c.pc = "done" /\ c.result = "true") =>
      ~verifyAndGetUser(apiKeyCache, c.id)

(* C30: at most one polling timer exists, and with no startFileWatching *)
(* suspended a timer runs exactly when a connection is registered       *)
C30_TimerFollowsConnections ==
  /\ Cardinality(intervals) <= 1
  /\ starting = EmptyBag => ((intervals # {}) <=> (activeConnections # {}))

====
